---- MODULE Spec2Model ----
(***************************************************************************)
(* Contango hunter: the hedge position book (HedgePosition), the           *)
(* auto-trader loop and the order executor of contango_auto_trader.py and  *)
(* contango_trade_executor.py.                                             *)
(*                                                                         *)
(* USD amounts are exact numbers d + e*h: d whole dollars and e "dust"     *)
(* units, h being a fraction of the 1e-9 USD epsilon of the code           *)
(* (1e-9 USD = DustPerEps dust units).  |e| stays far below one dollar, so *)
(* the order of two amounts is the lexicographic order of (d, e).          *)
(***************************************************************************)
EXTENDS Integers, Sequences, FiniteSets, TLC

\* ------------------------------------------------------------------ bounds
DustPerEps == 4      \* dust units in 1e-9 USD (resolution of the amounts)
MaxCalls == 4        \* calls the free book driver makes on the position
MaxK == 42           \* round trips of 1..MaxK tranches
MaxTicks == 3        \* ticks of the auto-trader loop

\* ------------------------------------------------- program constants
TRANCHE_USD == 50
MAX_PER_LEG_USD == 2000

\* ------------------------------------------------------------- amounts
Usd(d, e) == [d |-> d, e |-> e]
Zero == Usd(0, 0)
EPS == Usd(0, DustPerEps)
Add(a, b) == Usd(a.d + b.d, a.e + b.e)
Sub(a, b) == Usd(a.d - b.d, a.e - b.e)
Lt(a, b) == a.d < b.d \/ (a.d = b.d /\ a.e < b.e)
Leq(a, b) == a = b \/ Lt(a, b)
MinUsd(a, b) == IF Leq(a, b) THEN a ELSE b
MaxUsd(a, b) == IF Leq(a, b) THEN b ELSE a

RECURSIVE SumUsd(_)
SumUsd(ts) == IF ts = <<>> THEN Zero ELSE Add(Head(ts).usd, SumUsd(Tail(ts)))

\* ------------------------------------------------------- HedgePosition
HedgePosition(base, spot_exchange, futures_exchange, futures_symbol, spot_symbol) ==
    [base |-> base, spot_exchange |-> spot_exchange,
     futures_exchange |-> futures_exchange, futures_symbol |-> futures_symbol,
     spot_symbol |-> spot_symbol, notional_usd |-> Zero, tranches |-> <<>>]

\* Variant: the capacity of an empty book, whatever is held.
remaining_capacity_Stale(p) == Usd(MAX_PER_LEG_USD, 0)
remaining_capacity(p) == MaxUsd(Zero, Sub(Usd(MAX_PER_LEG_USD, 0), p.notional_usd))

\* Variant: the request is recorded without the clamp to the capacity.
record_entry_NoClamp(p, usd, opportunity, now) ==
    IF Leq(usd, Zero)
    THEN [pos |-> p, ret |-> Zero]
    ELSE [pos |-> [p EXCEPT
                     !.tranches = Append(@, [usd |-> usd,
                                             futures_price |-> opportunity.futures_price,
                                             spot_price |-> opportunity.spot_price,
                                             timestamp |-> now]),
                     !.notional_usd = Add(@, usd)],
          ret |-> usd]

\* record_entry: the position after the call and the value returned.
record_entry(p, usd, opportunity, now) ==
    LET usd_added == MinUsd(usd, remaining_capacity(p))
    IN  IF Leq(usd_added, Zero)
        THEN [pos |-> p, ret |-> Zero]
        ELSE [pos |-> [p EXCEPT
                         !.tranches = Append(@, [usd |-> usd_added,
                                                 futures_price |-> opportunity.futures_price,
                                                 spot_price |-> opportunity.spot_price,
                                                 timestamp |-> now]),
                         !.notional_usd = Add(@, usd_added)],
              ret |-> usd_added]

\* A sum of quotients of amounts by prices, kept exact: per divisor the sum of
\* the dividends.  (pnl_total of record_exit, lines 75 and 99.)
AddPnl(total, pnl) ==
    IF pnl.den \in DOMAIN total
    THEN [total EXCEPT ![pnl.den] = Add(@, pnl.num)]
    ELSE [den \in DOMAIN total \cup {pnl.den} |->
             IF den = pnl.den THEN pnl.num ELSE total[den]]

\* Variant: the spot leg is taken with the sign of the futures leg.
ExitDetail_SpotShort(tranche, portion, exit_data, now) ==
    LET move == (tranche.futures_price - exit_data.futures_price)
                + (tranche.spot_price - exit_data.spot_price)
    IN  [portion_usd |-> portion,
         qty |-> [num |-> portion, den |-> tranche.futures_price],
         entry_futures_price |-> tranche.futures_price,
         entry_spot_price |-> tranche.spot_price,
         entry_timestamp |-> tranche.timestamp,
         exit_futures_price |-> exit_data.futures_price,
         exit_spot_price |-> exit_data.spot_price,
         exit_timestamp |-> now,
         pnl_usd |-> [num |-> Usd(portion.d * move, portion.e * move),
                      den |-> tranche.futures_price]]

\* One detail record of record_exit (lines 83-98): qty = portion / entry futures
\* price, pnl = qty * ((entry futures - exit futures) + (exit spot - entry spot)).
ExitDetail(tranche, portion, exit_data, now) ==
    LET move == (tranche.futures_price - exit_data.futures_price)
                + (exit_data.spot_price - tranche.spot_price)
    IN
    [portion_usd |-> portion,
     qty |-> [num |-> portion, den |-> tranche.futures_price],
     entry_futures_price |-> tranche.futures_price,
     entry_spot_price |-> tranche.spot_price,
     entry_timestamp |-> tranche.timestamp,
     exit_futures_price |-> exit_data.futures_price,
     exit_spot_price |-> exit_data.spot_price,
     exit_timestamp |-> now,
     pnl_usd |-> [num |-> Usd(portion.d * move, portion.e * move),
                  den |-> tranche.futures_price]]

\* Variant: a partly closed tranche goes to the back of the list.
ExitStepTranches_Requeue(tranches, portion) ==
    LET left == Sub(Head(tranches).usd, portion)
    IN  IF Leq(left, EPS)
        THEN Tail(tranches)
        ELSE Tail(tranches) \o <<[Head(tranches) EXCEPT !.usd = left]>>

\* One iteration of the while loop of record_exit on the head tranche.
ExitStepTranches(tranches, portion) ==
    LET left == Sub(Head(tranches).usd, portion)
    IN  IF Leq(left, EPS)
        THEN Tail(tranches)
        ELSE <<[Head(tranches) EXCEPT !.usd = left]>> \o Tail(tranches)

\* The while loop of record_exit.
RECURSIVE ExitWalk(_, _, _, _, _, _)
ExitWalk(tranches, usd_remaining, details, pnl_total, exit_data, now) ==
    IF Lt(EPS, usd_remaining) /\ tranches # <<>>
    THEN LET portion == MinUsd(usd_remaining, Head(tranches).usd)
             detail == ExitDetail(Head(tranches), portion, exit_data, now)
         IN  ExitWalk(ExitStepTranches(tranches, portion),
                      Sub(usd_remaining, portion),
                      Append(details, detail),
                      AddPnl(pnl_total, detail.pnl_usd),
                      exit_data, now)
    ELSE [tranches |-> tranches, usd_remaining |-> usd_remaining, details |-> details,
          pnl_total |-> pnl_total]

\* Variant: the tranches are consumed but notional_usd is not lowered.
record_exit_KeepNotional(p, usd, exit_data, now) ==
    LET usd_target == MinUsd(usd, p.notional_usd)
    IN  IF Leq(usd_target, Zero)
        THEN [pos |-> p, closed |-> Zero, pnl_total |-> <<>>, details |-> <<>>]
        ELSE LET w == ExitWalk(p.tranches, usd_target, <<>>, <<>>, exit_data, now)
             IN  [pos |-> [p EXCEPT !.tranches = w.tranches],
                  closed |-> Sub(usd_target, w.usd_remaining),
                  pnl_total |-> w.pnl_total,
                  details |-> w.details]

\* record_exit: the position after the call, the amount closed, the realized
\* profit and the details.
record_exit(p, usd, exit_data, now) ==
    LET usd_target == MinUsd(usd, p.notional_usd)
    IN  IF Leq(usd_target, Zero)
        THEN [pos |-> p, closed |-> Zero, pnl_total |-> <<>>, details |-> <<>>]
        ELSE LET w == ExitWalk(p.tranches, usd_target, <<>>, <<>>, exit_data, now)
                 actual_closed == Sub(usd_target, w.usd_remaining)
             IN  [pos |-> [p EXCEPT !.tranches = w.tranches,
                                    !.notional_usd = MaxUsd(Zero, Sub(@, actual_closed))],
                  closed |-> actual_closed,
                  pnl_total |-> w.pnl_total,
                  details |-> w.details]

\* ------------------------------------------------------------- state
VARIABLES
    pos,      \* the HedgePosition the book driver calls
    last,     \* the last call on pos: its arguments, the position before, its result
    clock,    \* time.time(): each call on the book reads a later time
    driver,   \* the book driver: free calls, or a scripted round trip of k tranches
    args,     \* command line: program, thresholds, --live, --notional-usd
    env,      \* environment: venues with API credentials, trade log writable
    positions,\* auto_trade_loop: positions, a dict in insertion order
    rows,     \* auto_trade_loop: rows of the current tick
    pc,       \* where the program is
    todo,     \* auto_trade_loop: keys of list(positions.items()) still to visit
    log,      \* lines of trade_cycles.jsonl
    orders,   \* orders sent to the exchanges, in the order sent
    clients,  \* number of exchange clients created
    execs,    \* calls of the order executor, with what they returned
    ev,       \* the arguments given to the evaluators
    evOut,    \* what the evaluators returned for them
    rates,    \* usdkrw_cache._rates: per spot venue the rate record
    mon,      \* the tick of the REST monitor: payloads, what get_rate did, maps, rows
    cache,    \* the quote cache of a futures stream client
    lastFrame,\* the last frame the stream client handled, and the cache before it
    upbit,    \* a spot stream client: where run() is, its cache, its rate, a reader
    engine,   \* the unified engine: where main() is, its stream tasks
    ws        \* a connection: the frames a client sent on it and its sleeps

bookVars == <<pos, last, driver>>
traderVars == <<args, env, positions, rows, pc, todo, log, orders, clients, execs>>
evalVars == <<ev, evOut>>
monitorVars == <<rates, mon>>
streamVars == <<cache, lastFrame, upbit, engine, ws>>
otherVars == <<evalVars, monitorVars, streamVars>>
vars == <<pos, last, clock, driver, args, env, positions, rows, pc, todo, log, orders,
          clients, execs, ev, evOut, rates, mon, cache, lastFrame, upbit, engine, ws>>

\* The parts of the state a run does not use stay as they are here.
IdleEval == ev = <<>> /\ evOut = <<>>
IdleMonitor == rates = <<>> /\ mon = <<>>
IdleStream ==
    cache = <<>> /\ lastFrame = <<>> /\ upbit = <<>> /\ engine = <<>> /\ ws = <<>>

\* ------------------------------------------------------ book driver
BookRows == {[futures_price |-> 100, spot_price |-> 99],
             [futures_price |-> 110, spot_price |-> 108]}
ExitRows == {[futures_price |-> 95, spot_price |-> 96]}
\* Requests: negative, zero, below the epsilon, a part of a tranche, a tranche,
\* a tranche and a little less than the epsilon, the whole cap.
EntryInputs == {Usd(0 - TRANCHE_USD, 0), Zero, Usd(0, 1), Usd(TRANCHE_USD, 0),
                Usd(TRANCHE_USD, DustPerEps - 1), Usd(MAX_PER_LEG_USD, 0)}
ExitInputs == {Usd(0 - TRANCHE_USD, 0), Zero, Usd(0, 1), Usd(30, 0), Usd(TRANCHE_USD, 0),
               Usd(MAX_PER_LEG_USD, 0)}

NoCall == [op |-> "none", usd |-> Zero, row |-> [futures_price |-> 0, spot_price |-> 0],
           before |-> <<>>, beforeNotional |-> Zero, ret |-> Zero, pnl |-> <<>>,
           details |-> <<>>]

EmptyPos == HedgePosition("BTC", "upbit", "okx", "BTC/USDT:USDT", "BTC/KRW")

IdleArgs == [prog |-> "book", entry_threshold |-> 0, exit_threshold |-> 0, live |-> FALSE,
             notional_usd |-> Zero]
IdleEnv == [creds |-> {}, log_writable |-> TRUE]

InitBook ==
    /\ IdleEval /\ IdleMonitor /\ IdleStream
    /\ args = IdleArgs /\ env = IdleEnv /\ positions = <<>> /\ rows = <<>> /\ pc = "book"
    /\ todo = <<>> /\ log = <<>> /\ orders = <<>> /\ clients = 0 /\ execs = <<>>
    /\ pos = EmptyPos
    /\ last = NoCall
    /\ clock = 0
    /\ driver \in {[mode |-> "free", k |-> 0, phase |-> "enter", n |-> 0, row |-> r] :
                        r \in {CHOOSE r0 \in BookRows : TRUE}}
                  \cup {[mode |-> "round", k |-> k, phase |-> "enter", n |-> 0, row |-> r] :
                        k \in 1..MaxK, r \in BookRows}

CallEntry(usd, row) ==
    LET r == record_entry(pos, usd, row, clock)
    IN  /\ pos' = r.pos
        /\ clock' = clock + 1
        /\ last' = [op |-> "entry", usd |-> usd, row |-> row, before |-> pos.tranches,
                    beforeNotional |-> pos.notional_usd, ret |-> r.ret, pnl |-> <<>>,
                    details |-> <<>>]

CallExit(usd, row) ==
    LET r == record_exit(pos, usd, row, clock)
    IN  /\ pos' = r.pos
        /\ clock' = clock + 1
        /\ last' = [op |-> "exit", usd |-> usd, row |-> row, before |-> pos.tranches,
                    beforeNotional |-> pos.notional_usd, ret |-> r.closed,
                    pnl |-> r.pnl_total, details |-> r.details]

BookEntry ==
    /\ driver.mode = "free"
    /\ clock < MaxCalls
    /\ \E usd \in EntryInputs, row \in BookRows : CallEntry(usd, row)
    /\ UNCHANGED <<driver, traderVars, otherVars>>

BookExit ==
    /\ driver.mode = "free"
    /\ clock < MaxCalls
    /\ \E usd \in ExitInputs, row \in ExitRows : CallExit(usd, row)
    /\ UNCHANGED <<driver, traderVars, otherVars>>

RoundEntry ==
    /\ driver.mode = "round" /\ driver.phase = "enter" /\ driver.n < driver.k
    /\ CallEntry(Usd(TRANCHE_USD, 0), driver.row)
    /\ driver' = [driver EXCEPT !.n = @ + 1]
    /\ UNCHANGED <<traderVars, otherVars>>

RoundTurn ==
    /\ driver.mode = "round" /\ driver.phase = "enter" /\ driver.n = driver.k
    /\ driver' = [driver EXCEPT !.phase = "exit", !.n = 0]
    /\ UNCHANGED <<pos, last, clock, traderVars, otherVars>>

RoundExit ==
    /\ driver.mode = "round" /\ driver.phase = "exit" /\ driver.n < driver.k
    /\ \E row \in ExitRows : CallExit(Usd(TRANCHE_USD, 0), row)
    /\ driver' = [driver EXCEPT !.n = @ + 1]
    /\ UNCHANGED <<traderVars, otherVars>>

NextBook == BookEntry \/ BookExit \/ RoundEntry \/ RoundTurn \/ RoundExit

SpecBook == InitBook /\ [][NextBook]_vars

\* ------------------------------------------------ rows of a tick
\* Percentages are in units of 0.001 %, fees in units of 0.00001 (0.001 %),
\* funding rates in units of 0.0001.
SPOT_FEES == [upbit |-> 50, bithumb |-> 40]
FUTURES_FEES == [gateio |-> 50, hyperliquid |-> 35, okx |-> 50, bybit |-> 550]

\* A value that may be None.
None == [some |-> FALSE]
Some(v) == [some |-> TRUE, v |-> v]

\* table.get(id, 0.0)
Fee(table, id) == IF id \in DOMAIN table THEN table[id] ELSE 0

\* A dict is the sequence of its items in insertion order.  spot_maps: items
\* [id, label, prices], prices being items [base, price].  futures_maps: items
\* [id, prices], prices being items [base, price, funding_rate, symbol] with
\* price and funding_rate possibly None.
\* spot_prices.get(base)
RECURSIVE GetPrice(_, _)
GetPrice(prices, base) ==
    IF prices = <<>> THEN None
    ELSE IF Head(prices).base = base THEN Some(Head(prices).price)
         ELSE GetPrice(Tail(prices), base)

\* The two inner loops of the evaluator: every (futures venue, base) item.
RECURSIVE FuturesItems(_)
FuturesItems(futures_maps) ==
    IF futures_maps = <<>> THEN <<>>
    ELSE [i \in 1..Len(Head(futures_maps).prices) |->
             [exchange |-> Head(futures_maps).id,
              base |-> Head(futures_maps).prices[i].base,
              payload |-> Head(futures_maps).prices[i]]]
         \o FuturesItems(Tail(futures_maps))

\* The three loops: every (spot venue, futures venue, base), in visiting order.
RECURSIVE Combinations(_, _)
Combinations(spot_maps, futures_maps) ==
    IF spot_maps = <<>> THEN <<>>
    ELSE LET items == FuturesItems(futures_maps)
         IN  [i \in 1..Len(items) |->
                 [spot_exchange |-> Head(spot_maps).id,
                  spot_label |-> Head(spot_maps).label,
                  spot_price |-> GetPrice(Head(spot_maps).prices, items[i].base),
                  exchange |-> items[i].exchange,
                  base |-> items[i].base,
                  payload |-> items[i].payload]]
             \o Combinations(Tail(spot_maps), futures_maps)

\* pct = (spread / spot_price) * 100, in units of 0.001 %, rounded down.
SpreadPct(spot_price, futures_price) ==
    ((futures_price - spot_price) * 100000) \div spot_price

\* Variant: the threshold is exclusive.
Emitted_StrictPct(c, min_spread_pct, require_nonnegative_funding) ==
    /\ c.spot_price.some /\ c.spot_price.v # 0
    /\ c.payload.price.some
    /\ c.payload.price.v - c.spot_price.v > 0
    /\ SpreadPct(c.spot_price.v, c.payload.price.v) > min_spread_pct
    /\ c.payload.funding_rate.some
    /\ ~(require_nonnegative_funding /\ c.payload.funding_rate.v < 0)

\* Variant: the funding rate is not looked at.
Emitted_AnyFunding(c, min_spread_pct, require_nonnegative_funding) ==
    /\ c.spot_price.some /\ c.spot_price.v # 0
    /\ c.payload.price.some
    /\ c.payload.price.v - c.spot_price.v > 0
    /\ SpreadPct(c.spot_price.v, c.payload.price.v) >= min_spread_pct

\* identify_contango, lines 220-236: is a row emitted for this combination.
\* "not spot_price" holds of None and of 0, not of a negative price.
Emitted(c, min_spread_pct, require_nonnegative_funding) ==
    /\ c.spot_price.some /\ c.spot_price.v # 0
    /\ c.payload.price.some
    /\ c.payload.price.v - c.spot_price.v > 0
    /\ SpreadPct(c.spot_price.v, c.payload.price.v) >= min_spread_pct
    /\ c.payload.funding_rate.some
    /\ ~(require_nonnegative_funding /\ c.payload.funding_rate.v < 0)

\* identify_contango, lines 237-259: the row.
MakeRow(c) ==
    LET pct == SpreadPct(c.spot_price.v, c.payload.price.v)
        total_fee_pct == Fee(SPOT_FEES, c.spot_exchange) * 2 + Fee(FUTURES_FEES, c.exchange) * 2
    IN  [base |-> c.base, spot_exchange |-> c.spot_exchange, spot_label |-> c.spot_label,
         exchange |-> c.exchange, spot_price |-> c.spot_price.v,
         futures_price |-> c.payload.price.v,
         spread |-> c.payload.price.v - c.spot_price.v, pct |-> pct,
         futures_symbol |-> c.payload.symbol, funding_rate |-> c.payload.funding_rate,
         net_pct |-> pct - total_fee_pct,
         net_pct_minus_0_2 |-> pct - total_fee_pct - 200,
         net_pct_minus_0_4 |-> pct - total_fee_pct - 400]

\* Variant: the rows are ranked by net_pct.
RECURSIVE InsertRow_ByNet(_, _)
InsertRow_ByNet(sorted, r) ==
    IF sorted = <<>> THEN <<r>>
    ELSE IF Head(sorted).net_pct >= r.net_pct
         THEN <<Head(sorted)>> \o InsertRow_ByNet(Tail(sorted), r)
         ELSE <<r>> \o sorted

\* rows.sort(key=pct, reverse=True): a stable sort, the row goes behind the
\* rows of the same pct already placed.
RECURSIVE InsertRow(_, _)
InsertRow(sorted, r) ==
    IF sorted = <<>> THEN <<r>>
    ELSE IF Head(sorted).pct >= r.pct
         THEN <<Head(sorted)>> \o InsertRow(Tail(sorted), r)
         ELSE <<r>> \o sorted

RECURSIVE SortRows(_)
SortRows(rs) ==
    IF rs = <<>> THEN <<>>
    ELSE InsertRow(SortRows(SubSeq(rs, 1, Len(rs) - 1)), rs[Len(rs)])

identify_contango(spot_maps, futures_maps, min_spread_pct, require_nonnegative_funding) ==
    LET kept == SelectSeq(Combinations(spot_maps, futures_maps),
                          LAMBDA c : Emitted(c, min_spread_pct, require_nonnegative_funding))
    IN  SortRows([i \in 1..Len(kept) |-> MakeRow(kept[i])])

\* ------------------------------------------------ the evaluator of the stream engine
\* ws_contango_engine.compute_contango.  futures_streams: items [name, fee,
\* snapshot], snapshot being items [key, base, bid, funding_rate]: base is what
\* the stream's resolver gives for the key (None when it resolves to nothing).
RECURSIVE StreamItems(_)
StreamItems(futures_streams) ==
    IF futures_streams = <<>> THEN <<>>
    ELSE [i \in 1..Len(Head(futures_streams).snapshot) |->
             [futures |-> Head(futures_streams).name,
              fee |-> Head(futures_streams).fee,
              data |-> Head(futures_streams).snapshot[i]]]
         \o StreamItems(Tail(futures_streams))

RECURSIVE StreamCombinations(_, _)
StreamCombinations(spot_sources, futures_streams) ==
    IF spot_sources = <<>> THEN <<>>
    ELSE LET items == StreamItems(futures_streams)
         IN  [i \in 1..Len(items) |->
                 [spot_exchange |-> Head(spot_sources).id,
                  spot_label |-> Head(spot_sources).label,
                  spot_price |-> IF items[i].data.base.some
                                 THEN GetPrice(Head(spot_sources).prices, items[i].data.base.v)
                                 ELSE None,
                  futures |-> items[i].futures,
                  fee |-> items[i].fee,
                  data |-> items[i].data]]
             \o StreamCombinations(Tail(spot_sources), futures_streams)

\* compute_contango, lines 91-106: is a row appended for this combination.
StreamEmitted(c, min_spread_pct) ==
    /\ c.data.base.some
    /\ c.spot_price.some /\ c.spot_price.v # 0
    /\ c.data.bid.some
    /\ c.data.bid.v - c.spot_price.v > 0
    /\ SpreadPct(c.spot_price.v, c.data.bid.v) >= min_spread_pct

\* compute_contango, lines 107-122: the row; funding_rate is data.get("funding_rate").
StreamRow(c) ==
    LET pct == SpreadPct(c.spot_price.v, c.data.bid.v)
        total_fee_pct == Fee(SPOT_FEES, c.spot_exchange) * 2 + c.fee * 2
    IN  [base |-> c.data.base.v, spot_label |-> c.spot_label, futures |-> c.futures,
         spot_price |-> c.spot_price.v, futures_price |-> c.data.bid.v,
         spread |-> c.data.bid.v - c.spot_price.v, pct |-> pct,
         net_pct |-> pct - total_fee_pct, funding_rate |-> c.data.funding_rate]

compute_contango(spot_sources, futures_streams, min_spread_pct) ==
    LET kept == SelectSeq(StreamCombinations(spot_sources, futures_streams),
                          LAMBDA c : StreamEmitted(c, min_spread_pct))
    IN  SortRows([i \in 1..Len(kept) |-> StreamRow(kept[i])])

\* ------------------------------------------------ what a tick of the traders observes
Quote(sp, fp, fr) == [spot_price |-> sp, futures_price |-> fp, funding_rate |-> fr]
NoQuote == Quote(0, 0, 0)

\* What a tick may observe for a combination: nothing, a spread at the exit
\* threshold, a spread at or above the entry threshold with negative, zero or
\* positive funding.
QuoteOptions ==
    {NoQuote, Quote(1000, 1002, 1), Quote(1000, 1010, 0 - 1), Quote(1000, 1010, 0),
     Quote(1000, 1020, 0 - 1), Quote(1000, 1020, 1)}

\* The maps of a tick: upbit and okx quote BTC (q1), bithumb and gateio quote
\* ETH (q2); a venue with no quote has an empty map.
QuotedSpot(id, label, base, q) ==
    IF q = NoQuote THEN <<>>
    ELSE <<[id |-> id, label |-> label, prices |-> <<[base |-> base, price |-> q.spot_price]>>]>>
QuotedFutures(id, base, q) ==
    <<[id |-> id,
       prices |-> IF q = NoQuote THEN <<>>
                  ELSE <<[base |-> base, price |-> Some(q.futures_price),
                          funding_rate |-> Some(q.funding_rate),
                          symbol |-> base \o "/USDT:USDT"]>>]>>
SpotMapsOf(q1, q2) == QuotedSpot("upbit", "Up", "BTC", q1) \o QuotedSpot("bithumb", "Bit", "ETH", q2)
FuturesMapsOf(q1, q2) == QuotedFutures("gateio", "ETH", q2) \o QuotedFutures("okx", "BTC", q1)

\* fetch_rows of the auto-trader: min_pct 0, negative funding kept.
fetch_rows(q1, q2) == identify_contango(SpotMapsOf(q1, q2), FuturesMapsOf(q1, q2), 0, FALSE)

\* fetch_opportunities of the trade executor: funding filter at its default.
fetch_opportunities(q1, q2) ==
    identify_contango(SpotMapsOf(q1, q2), FuturesMapsOf(q1, q2), 0, TRUE)

NoRow == [base |-> "None"]

\* Variant: the first row over the threshold, funding not looked at.
RECURSIVE pick_best_AnyFunding(_, _)
pick_best_AnyFunding(rs, entry_threshold) ==
    IF rs = <<>> THEN NoRow
    ELSE IF Head(rs).pct >= entry_threshold THEN Head(rs)
         ELSE pick_best_AnyFunding(Tail(rs), entry_threshold)

RECURSIVE pick_best(_, _)
pick_best(rs, entry_threshold) ==
    IF rs = <<>> THEN NoRow
    ELSE IF /\ Head(rs).pct >= entry_threshold
            /\ Head(rs).funding_rate.some
            /\ Head(rs).funding_rate.v >= 0
         THEN Head(rs)
         ELSE pick_best(Tail(rs), entry_threshold)

RECURSIVE select_opportunity(_, _)
select_opportunity(rs, min_pct) ==
    IF rs = <<>> THEN NoRow
    ELSE IF Head(rs).pct >= min_pct THEN Head(rs)
         ELSE select_opportunity(Tail(rs), min_pct)

\* ------------------------------------------------ the position set
KeyOf(o) == <<o.spot_exchange, o.exchange, o.base>>
PosKey(p) == <<p.spot_exchange, p.futures_exchange, p.base>>

HasKey(ps, key) == \E i \in 1..Len(ps) : ps[i].key = key
Lookup(ps, key) == ps[CHOOSE i \in 1..Len(ps) : ps[i].key = key].pos
SetPos(ps, key, p) == [i \in 1..Len(ps) |-> IF ps[i].key = key THEN [ps[i] EXCEPT !.pos = p]
                                                               ELSE ps[i]]
\* Variant: the position is never dropped.
PopKey_Keep(ps, key) == ps
PopKey(ps, key) == SelectSeq(ps, LAMBDA e : e.key # key)
KeysOf(ps) == [i \in 1..Len(ps) |-> ps[i].key]

ensure_position(opportunity, ps) ==
    IF HasKey(ps, KeyOf(opportunity)) THEN ps
    ELSE Append(ps, [key |-> KeyOf(opportunity),
                     pos |-> HedgePosition(opportunity.base, opportunity.spot_exchange,
                                           opportunity.exchange, opportunity.futures_symbol,
                                           opportunity.base \o "/KRW")])

\* next(row for row in rows if the triple matches, None)
RECURSIVE CurrentRow(_, _)
CurrentRow(rs, p) ==
    IF rs = <<>> THEN NoRow
    ELSE IF KeyOf(Head(rs)) = PosKey(p) THEN Head(rs)
         ELSE CurrentRow(Tail(rs), p)

\* ------------------------------------------------ the order executor
hedged_amount_qty(opportunity, usd_amount) ==
    [num |-> usd_amount, den |-> opportunity.futures_price]

Order(call, leg, exchange, symbol, side, amount, ok) ==
    [call |-> call, leg |-> leg, exchange |-> exchange, symbol |-> symbol, side |-> side,
     amount |-> amount, ok |-> ok]

NoResult == [mode |-> "None"]
Raised(c, os) == [raised |-> TRUE, clients |-> c, orders |-> os, result |-> NoResult]
Returned(c, os, res) == [raised |-> FALSE, clients |-> c, orders |-> os, result |-> res]

\* The ways a live pair of orders can go, the leg named first being sent first:
\* the first order fails, the second fails, both succeed.
Failed(order) == [order EXCEPT !.ok = FALSE]
LivePair(first, second, res) ==
    {Raised(2, <<Failed(first)>>),
     Raised(2, <<first, Failed(second)>>),
     Returned(2, <<first, second>>, res)}

\* Variant: the spot order is sent before the futures order.
execute_tranche_SpotFirst(position, opportunity, usd_amount, action, dry_run, creds, call) ==
    LET qty == hedged_amount_qty(opportunity, usd_amount)
        fut == Order(call, "futures", position.futures_exchange, position.futures_symbol,
                         IF action = "open" THEN "sell" ELSE "buy", qty, TRUE)
        spot == Order(call, "spot", position.spot_exchange, position.spot_symbol,
                          IF action = "open" THEN "buy" ELSE "sell", qty, TRUE)
    IN  IF dry_run
        THEN {Returned(0, <<>>, [qty |-> qty, usd_amount |-> usd_amount, mode |-> "DRY_RUN"])}
        ELSE LivePair(spot, fut, [qty |-> qty, usd_amount |-> usd_amount,
                                  futures_order |-> "futures", spot_order |-> "spot"])

\* Variant: the dry_run flag is not honoured.
execute_tranche_AlwaysLive(position, opportunity, usd_amount, action, dry_run, creds, call) ==
    LET qty == hedged_amount_qty(opportunity, usd_amount)
        fut == Order(call, "futures", position.futures_exchange, position.futures_symbol,
                         IF action = "open" THEN "sell" ELSE "buy", qty, TRUE)
        spot == Order(call, "spot", position.spot_exchange, position.spot_symbol,
                          IF action = "open" THEN "buy" ELSE "sell", qty, TRUE)
    IN  LivePair(fut, spot, [qty |-> qty, usd_amount |-> usd_amount,
                             futures_order |-> "futures", spot_order |-> "spot"])

\* Variant: the spot client is created only when the spot order is due.
execute_tranche_LazySpotClient(position, opportunity, usd_amount, action, dry_run, creds, call) ==
    LET qty == hedged_amount_qty(opportunity, usd_amount)
        fut == Order(call, "futures", position.futures_exchange, position.futures_symbol,
                     IF action = "open" THEN "sell" ELSE "buy", qty, TRUE)
        spot == Order(call, "spot", position.spot_exchange, position.spot_symbol,
                      IF action = "open" THEN "buy" ELSE "sell", qty, TRUE)
    IN  IF dry_run
        THEN {Returned(0, <<>>, [qty |-> qty, usd_amount |-> usd_amount, mode |-> "DRY_RUN"])}
        ELSE IF position.futures_exchange \notin creds THEN {Raised(0, <<>>)}
        ELSE IF position.spot_exchange \notin creds
        THEN {Raised(1, <<Failed(fut)>>), Raised(1, <<fut>>)}
        ELSE LivePair(fut, spot, [qty |-> qty, usd_amount |-> usd_amount,
                                  futures_order |-> "futures", spot_order |-> "spot"])

\* execute_tranche: the set of ways the call can end.  Each gives the clients
\* created, the orders sent in order, and what is returned, or that it raised.
execute_tranche(position, opportunity, usd_amount, action, dry_run, creds, call) ==
    LET qty == hedged_amount_qty(opportunity, usd_amount)
        fut == Order(call, "futures", position.futures_exchange, position.futures_symbol,
                         IF action = "open" THEN "sell" ELSE "buy", qty, TRUE)
        spot == Order(call, "spot", position.spot_exchange, position.spot_symbol,
                          IF action = "open" THEN "buy" ELSE "sell", qty, TRUE)
    IN  IF opportunity.futures_price <= 0 THEN {Raised(0, <<>>)}
        ELSE IF dry_run
        THEN {Returned(0, <<>>, [qty |-> qty, usd_amount |-> usd_amount, mode |-> "DRY_RUN"])}
        ELSE IF position.futures_exchange \notin creds THEN {Raised(0, <<>>)}
        ELSE IF position.spot_exchange \notin creds THEN {Raised(1, <<>>)}
        ELSE LivePair(fut, spot, [qty |-> qty, usd_amount |-> usd_amount,
                                  futures_order |-> "futures", spot_order |-> "spot"])

compute_quantities(opportunity, notional_usd) ==
    [num |-> notional_usd, den |-> opportunity.futures_price]

\* execute_live_trade of the trade executor: it prints and returns nothing.
execute_live_trade(opportunity, base_qty, dry_run, creds, call) ==
    LET fut == Order(call, "futures", opportunity.exchange, opportunity.futures_symbol,
                         "sell", base_qty, TRUE)
        spot == Order(call, "spot", opportunity.spot_exchange, opportunity.base \o "/KRW",
                          "buy", base_qty, TRUE)
    IN  IF dry_run THEN {Returned(0, <<>>, NoResult)}
        ELSE IF opportunity.exchange \notin creds THEN {Raised(0, <<>>)}
        ELSE IF opportunity.spot_exchange \notin creds THEN {Raised(1, <<>>)}
        ELSE LivePair(fut, spot, NoResult)

\* One call of the executor as the history keeps it.
ExecRecord(fn, action, key, usd_amount, out) ==
    [fn |-> fn, action |-> action, key |-> key, usd_amount |-> usd_amount, tick |-> clock,
     raised |-> out.raised, result |-> out.result]

\* Variant: the file is opened for writing, not for appending.
log_event_Truncate(lines, record, writable) == IF writable THEN <<record>> ELSE lines

\* log_event: one more line, unless the write fails (the warning is printed).
log_event(lines, record, writable) == IF writable THEN Append(lines, record) ELSE lines

EntryEvent(best, recorded, execution) ==
    [event |-> "entry", timestamp |-> clock, base |-> best.base,
     spot_exchange |-> best.spot_exchange, futures_exchange |-> best.exchange,
     usd |-> recorded, spread_pct |-> best.pct, net_pct |-> best.net_pct,
     funding_rate |-> best.funding_rate, execution |-> execution]

ExitEvent(p, current, closed_usd, pnl_usd, details, execution) ==
    [event |-> "exit", timestamp |-> clock, base |-> p.base,
     spot_exchange |-> p.spot_exchange, futures_exchange |-> p.futures_exchange,
     usd |-> closed_usd, spread_pct |-> current.pct, net_pct |-> current.net_pct,
     funding_rate |-> current.funding_rate, pnl_usd |-> pnl_usd, portions |-> details,
     execution |-> execution]

\* ------------------------------------------------ the two programs
\* --entry-threshold and --exit-threshold: the defaults (1.0 % and 0.2 %), and
\* an entry threshold below the exit threshold.
Thresholds == {<<1000, 200>>, <<200, 1000>>}

AllCreds == {"upbit", "bithumb", "okx", "gateio"}

InitTrader ==
    /\ IdleEval /\ IdleMonitor /\ IdleStream
    /\ pos = EmptyPos /\ last = NoCall
    /\ driver = [mode |-> "idle", k |-> 0, phase |-> "enter", n |-> 0,
                 row |-> CHOOSE r0 \in BookRows : TRUE]
    /\ clock = 0
    /\ \E prog \in {"auto_trader", "trade_executor"}, live \in BOOLEAN, th \in Thresholds :
          /\ args = [prog |-> prog, entry_threshold |-> th[1], exit_threshold |-> th[2],
                     live |-> live, notional_usd |-> Usd(1000, 0)]
          /\ pc = IF prog = "auto_trader" THEN "fetch" ELSE "main"
          /\ env \in IF live
                     THEN {[creds |-> c, log_writable |-> TRUE] :
                              c \in {AllCreds, AllCreds \ {"okx"}, AllCreds \ {"bithumb"}}}
                     ELSE {[creds |-> {}, log_writable |-> w] : w \in BOOLEAN}
          /\ th # <<1000, 200>> => (~live /\ env.log_writable /\ prog = "auto_trader")
    /\ positions = <<>> /\ rows = <<>> /\ todo = <<>> /\ log = <<>> /\ orders = <<>>
    /\ clients = 0 /\ execs = <<>>

\* fetch_rows succeeded: the tick goes on to the entry logic.
FetchRows ==
    /\ pc = "fetch" /\ clock < MaxTicks
    /\ \E q1 \in QuoteOptions, q2 \in QuoteOptions :
          /\ SpotMapsOf(q1, q2) # <<>>
          /\ rows' = fetch_rows(q1, q2)
    /\ pc' = "entry"
    /\ UNCHANGED <<bookVars, otherVars, clock, args, env, positions, todo, log, orders, clients, execs>>

\* Variant: the ContangoError is not caught and ends the loop.
FetchError_Raise ==
    /\ pc = "fetch" /\ clock < MaxTicks
    /\ \E q1 \in QuoteOptions, q2 \in QuoteOptions : SpotMapsOf(q1, q2) = <<>>
    /\ pc' = "crashed"
    /\ UNCHANGED <<bookVars, otherVars, clock, args, env, positions, rows, todo, log, orders,
                   clients, execs>>

\* fetch_rows raised ContangoError, which build_spot_usd_maps does when no
\* spot venue has a KRW price (contango_monitor.py lines 169-170): the error
\* is printed, the loop sleeps and starts the next tick.
FetchError ==
    /\ pc = "fetch" /\ clock < MaxTicks
    /\ \E q1 \in QuoteOptions, q2 \in QuoteOptions : SpotMapsOf(q1, q2) = <<>>
    /\ clock' = clock + 1
    /\ UNCHANGED <<bookVars, otherVars, traderVars>>

\* Variant: the book records the tranche before the executor is called.
EntryLogic_RecordFirst ==
    /\ pc = "entry"
    /\ LET best == pick_best(rows, args.entry_threshold)
       IN  IF best = NoRow
           THEN /\ pc' = "exit" /\ todo' = KeysOf(positions)
                /\ UNCHANGED <<positions, log, orders, clients, execs>>
           ELSE LET ps1 == ensure_position(best, positions)
                    position == Lookup(ps1, KeyOf(best))
                    usd_to_add == MinUsd(Usd(TRANCHE_USD, 0), remaining_capacity(position))
                IN  IF Lt(Zero, usd_to_add) /\ best.pct >= args.entry_threshold
                    THEN \E out \in execute_tranche(position, best, usd_to_add, "open",
                                                    ~args.live, env.creds, Len(execs) + 1) :
                            /\ execs' = Append(execs, ExecRecord("execute_tranche", "open",
                                                                 KeyOf(best), usd_to_add, out))
                            /\ orders' = orders \o out.orders
                            /\ clients' = clients + out.clients
                            /\ LET r == record_entry(position, usd_to_add, best, clock)
                               IN  IF out.raised
                                   THEN /\ positions' = SetPos(ps1, KeyOf(best), r.pos)
                                        /\ pc' = "crashed" /\ UNCHANGED <<todo, log>>
                                   ELSE /\ positions' = SetPos(ps1, KeyOf(best), r.pos)
                                        /\ log' = log_event(log, EntryEvent(best, r.ret, out.result),
                                                            env.log_writable)
                                        /\ pc' = "exit" /\ todo' = KeysOf(positions')
                    ELSE /\ positions' = ps1
                         /\ pc' = "exit" /\ todo' = KeysOf(ps1)
                         /\ UNCHANGED <<log, orders, clients, execs>>
    /\ UNCHANGED <<bookVars, otherVars, clock, args, env, rows>>

\* Lines 234-264: pick the best row and open one tranche on it.
EntryLogic ==
    /\ pc = "entry"
    /\ LET best == pick_best(rows, args.entry_threshold)
       IN  IF best = NoRow
           THEN /\ pc' = "exit" /\ todo' = KeysOf(positions)
                /\ UNCHANGED <<positions, log, orders, clients, execs>>
           ELSE LET ps1 == ensure_position(best, positions)
                    position == Lookup(ps1, KeyOf(best))
                    usd_to_add == MinUsd(Usd(TRANCHE_USD, 0), remaining_capacity(position))
                IN  IF Lt(Zero, usd_to_add) /\ best.pct >= args.entry_threshold
                    THEN \E out \in execute_tranche(position, best, usd_to_add, "open",
                                                    ~args.live, env.creds, Len(execs) + 1) :
                            /\ execs' = Append(execs, ExecRecord("execute_tranche", "open",
                                                                 KeyOf(best), usd_to_add, out))
                            /\ orders' = orders \o out.orders
                            /\ clients' = clients + out.clients
                            /\ IF out.raised
                               THEN /\ positions' = ps1
                                    /\ pc' = "crashed" /\ UNCHANGED <<todo, log>>
                               ELSE LET r == record_entry(position, usd_to_add, best, clock)
                                    IN  /\ positions' = SetPos(ps1, KeyOf(best), r.pos)
                                        /\ log' = log_event(log, EntryEvent(best, r.ret, out.result),
                                                            env.log_writable)
                                        /\ pc' = "exit" /\ todo' = KeysOf(positions')
                    ELSE /\ positions' = ps1
                         /\ pc' = "exit" /\ todo' = KeysOf(ps1)
                         /\ UNCHANGED <<log, orders, clients, execs>>
    /\ UNCHANGED <<bookVars, otherVars, clock, args, env, rows>>

\* Lines 267-298: one turn of the loop over the positions.
ExitLogic ==
    /\ pc = "exit" /\ todo # <<>>
    /\ LET key == Head(todo)
           p == Lookup(positions, key)
           current == CurrentRow(rows, p)
       IN  IF current = NoRow
           THEN /\ todo' = Tail(todo)
                /\ UNCHANGED <<positions, pc, log, orders, clients, execs>>
           ELSE IF Leq(p.notional_usd, Zero)
           THEN /\ positions' = PopKey(positions, key)
                /\ todo' = Tail(todo)
                /\ UNCHANGED <<pc, log, orders, clients, execs>>
           ELSE IF current.pct <= args.exit_threshold /\ Lt(Zero, p.notional_usd)
           THEN LET usd_request == MinUsd(Usd(TRANCHE_USD, 0), p.notional_usd)
                    r == record_exit(p, usd_request, current, clock)
                    recorded == SetPos(positions, key, r.pos)
                    dropped == IF Leq(r.pos.notional_usd, EPS)
                               THEN PopKey(recorded, key)
                               ELSE recorded
                IN  IF Lt(Zero, r.closed)
                    THEN \E out \in execute_tranche(r.pos, current, r.closed, "close",
                                                    ~args.live, env.creds, Len(execs) + 1) :
                            /\ execs' = Append(execs, ExecRecord("execute_tranche", "close",
                                                                 key, r.closed, out))
                            /\ orders' = orders \o out.orders
                            /\ clients' = clients + out.clients
                            /\ IF out.raised
                               THEN /\ positions' = recorded
                                    /\ pc' = "crashed" /\ UNCHANGED <<todo, log>>
                               ELSE /\ positions' = dropped
                                    /\ log' = log_event(log, ExitEvent(p, current, r.closed, r.pnl_total,
                                                                       r.details, out.result),
                                                        env.log_writable)
                                    /\ todo' = Tail(todo) /\ UNCHANGED pc
                    ELSE /\ positions' = dropped
                         /\ todo' = Tail(todo)
                         /\ UNCHANGED <<pc, log, orders, clients, execs>>
           ELSE /\ todo' = Tail(todo)
                /\ UNCHANGED <<positions, pc, log, orders, clients, execs>>
    /\ UNCHANGED <<bookVars, otherVars, clock, args, env, rows>>

\* Line 300: time.sleep(interval), then the next tick.
Sleep ==
    /\ pc = "exit" /\ todo = <<>>
    /\ clock' = clock + 1
    /\ pc' = "fetch"
    /\ UNCHANGED <<bookVars, otherVars, args, env, positions, rows, todo, log, orders, clients, execs>>

\* main of contango_trade_executor.py: one evaluation, one hedge.
TradeExecutorMain ==
    /\ pc = "main"
    /\ \E q1 \in QuoteOptions, q2 \in QuoteOptions :
          /\ rows' = fetch_opportunities(q1, q2)
          /\ LET opportunity == select_opportunity(rows', args.entry_threshold)
             IN  IF opportunity = NoRow
                 THEN /\ pc' = "exited" /\ UNCHANGED <<orders, clients, execs>>
                 ELSE \E out \in execute_live_trade(
                                      opportunity,
                                      compute_quantities(opportunity, args.notional_usd),
                                      ~args.live, env.creds, Len(execs) + 1) :
                         /\ execs' = Append(execs, ExecRecord("execute_live_trade", "open",
                                                              KeyOf(opportunity),
                                                              args.notional_usd, out))
                         /\ orders' = orders \o out.orders
                         /\ clients' = clients + out.clients
                         /\ pc' = IF out.raised THEN "crashed" ELSE "exited"
    /\ UNCHANGED <<bookVars, otherVars, clock, args, env, positions, todo, log>>

\* main of contango_trade_executor.py when fetch_opportunities fails: exit 1.
TradeExecutorFetchError ==
    /\ pc = "main"
    /\ pc' = "exited"
    /\ UNCHANGED <<bookVars, otherVars, clock, args, env, positions, rows, todo, log, orders, clients,
                   execs>>

NextTrader ==
    \/ FetchRows \/ FetchError \/ EntryLogic \/ ExitLogic \/ Sleep
    \/ TradeExecutorMain \/ TradeExecutorFetchError

SpecTrader == InitTrader /\ [][NextTrader]_vars

\* ------------------------------------------------------ claims on the book
Cap == Usd(MAX_PER_LEG_USD, 0)
FullTranches == MAX_PER_LEG_USD \div TRANCHE_USD

\* C1: after any sequence of record_entry and record_exit calls, whatever the
\* amounts requested, 0 <= notional_usd <= MAX_PER_LEG_USD.
C1_NotionalWithinCap == Leq(Zero, pos.notional_usd) /\ Leq(pos.notional_usd, Cap)

\* An entry larger than the capacity left was clamped and filled the position.
C1_Witness ==
    /\ last.op = "entry" /\ Lt(Zero, last.ret) /\ Lt(last.ret, last.usd)
    /\ Lt(Zero, last.beforeNotional) /\ pos.notional_usd = Cap

\* C2: after any sequence of calls, notional_usd equals the sum of usd over the
\* tranches in the list, within 1e-9.
C2_NotionalIsTrancheSum ==
    LET diff == Sub(pos.notional_usd, SumUsd(pos.tranches))
    IN  Leq(diff, EPS) /\ Leq(Sub(Zero, EPS), diff)

\* C3: record_exit retires tranches strictly FIFO: the details name a prefix of
\* the list in order, only the last consumed tranche may be consumed in part,
\* and the survivors are the rest of the list, in order, the first of them
\* reduced by the part taken.
C3_FifoExit ==
    last.op = "exit" =>
        LET b == last.before
            ds == last.details
            m == Len(ds)
            rest == SubSeq(b, m + 1, Len(b))
        IN  /\ m <= Len(b)
            /\ \A i \in 1..m :
                  /\ ds[i].entry_futures_price = b[i].futures_price
                  /\ ds[i].entry_spot_price = b[i].spot_price
                  /\ ds[i].entry_timestamp = b[i].timestamp
                  /\ Lt(Zero, ds[i].portion_usd)
                  /\ Leq(ds[i].portion_usd, b[i].usd)
            /\ \A i \in 1..(m - 1) : ds[i].portion_usd = b[i].usd
            /\ \/ pos.tranches = rest
               \/ /\ m >= 1
                  /\ Lt(ds[m].portion_usd, b[m].usd)
                  /\ pos.tranches =
                        <<[b[m] EXCEPT !.usd = Sub(b[m].usd, ds[m].portion_usd)]>> \o rest

\* An exit consumed the rest of the head tranche and a part of the next one.
C3_Witness ==
    /\ last.op = "exit" /\ Len(last.before) >= 2 /\ Len(last.details) = 2
    /\ Len(pos.tranches) = Len(last.before) - 1
    /\ last.details[1].portion_usd = last.before[1].usd
    /\ Lt(last.details[2].portion_usd, last.before[2].usd)
    /\ pos.tranches[1].usd = Sub(last.before[2].usd, last.details[2].portion_usd)

\* C4: k entries of TRANCHE_USD from an empty position and then k exits of
\* TRANCHE_USD, k*TRANCHE_USD <= MAX_PER_LEG_USD, leave notional 0 and no tranche.
C4_RoundTrip ==
    (/\ driver.mode = "round" /\ driver.phase = "exit" /\ driver.n = driver.k
     /\ driver.k * TRANCHE_USD <= MAX_PER_LEG_USD)
    => (pos.notional_usd = Zero /\ pos.tranches = <<>>)

\* The round trip of the largest k the cap allows has ended.
C4_Witness ==
    /\ driver.mode = "round" /\ driver.phase = "exit" /\ driver.n = driver.k
    /\ driver.k = FullTranches /\ last.op = "exit" /\ last.ret = Usd(TRANCHE_USD, 0)
    /\ Len(last.before) = 1

\* C5: record_entry(usd, row) returns min(usd, MAX_PER_LEG_USD - notional_usd);
\* when that is <= 0 it returns 0 and changes nothing, otherwise it appends one
\* tranche of that amount with the row's prices at the tail; so from an empty
\* position the first MAX_PER_LEG_USD/TRANCHE_USD entries of TRANCHE_USD add a
\* tranche each and every later one returns 0.
C5_EntryClamp ==
    last.op = "entry" =>
        LET amount == MinUsd(last.usd, Sub(Cap, last.beforeNotional))
        IN  /\ IF Leq(amount, Zero)
               THEN /\ last.ret = Zero
                    /\ pos.notional_usd = last.beforeNotional
                    /\ pos.tranches = last.before
               ELSE /\ last.ret = amount
                    /\ pos.notional_usd = Add(last.beforeNotional, amount)
                    /\ Len(pos.tranches) = Len(last.before) + 1
                    /\ SubSeq(pos.tranches, 1, Len(last.before)) = last.before
                    /\ pos.tranches[Len(pos.tranches)].usd = amount
                    /\ pos.tranches[Len(pos.tranches)].futures_price = last.row.futures_price
                    /\ pos.tranches[Len(pos.tranches)].spot_price = last.row.spot_price
            /\ (driver.mode = "round" /\ driver.phase = "enter") =>
                  IF driver.n <= FullTranches
                  THEN last.ret = Usd(TRANCHE_USD, 0) /\ Len(pos.tranches) = driver.n
                  ELSE last.ret = Zero /\ Len(pos.tranches) = FullTranches

\* The 41st successive entry of TRANCHE_USD returned 0 on a full position.
C5_Witness ==
    /\ driver.mode = "round" /\ driver.phase = "enter" /\ driver.n = FullTranches + 1
    /\ last.op = "entry" /\ last.usd = Usd(TRANCHE_USD, 0) /\ last.ret = Zero
    /\ Len(pos.tranches) = FullTranches /\ pos.notional_usd = Cap

\* ------------------------------------------------------ claims on the auto-trader
Count(seq, P(_)) == Cardinality({i \in 1..Len(seq) : P(seq[i])})
IsOpenCall(e) == e.fn = "execute_tranche" /\ e.action = "open"
IsCloseCall(e) == e.fn = "execute_tranche" /\ e.action = "close"
IsEntryEvent(e) == e.event = "entry"
IsExitEvent(e) == e.event = "exit"

RECURSIVE TotalTranches(_)
TotalTranches(ps) ==
    IF ps = <<>> THEN 0 ELSE Len(Head(ps).pos.tranches) + TotalTranches(Tail(ps))

NotionalOf(ps, key) == IF HasKey(ps, key) THEN Lookup(ps, key).notional_usd ELSE Zero
TranchesOf(ps, key) == IF HasKey(ps, key) THEN Lookup(ps, key).tranches ELSE <<>>

\* The rows of the tick that pass the entry gate.
Eligible == {i \in 1..Len(rows) :
                rows[i].pct >= args.entry_threshold
                /\ rows[i].funding_rate.some /\ rows[i].funding_rate.v >= 0}

C6_Step ==
    /\ (args.prog = "auto_trader" /\ pc # "entry") =>
          /\ Count(execs', IsOpenCall) = Count(execs, IsOpenCall)
          /\ Count(log', IsEntryEvent) = Count(log, IsEntryEvent)
          /\ TotalTranches(positions') <= TotalTranches(positions)
          /\ Len(positions') <= Len(positions)
          /\ (pc' = "entry" => pc = "fetch")
    /\ pc = "entry" =>
          /\ pc' # "entry" /\ clock' = clock
          /\ Count(execs', IsOpenCall) <= Count(execs, IsOpenCall) + 1
          /\ Count(log', IsEntryEvent) <= Count(log, IsEntryEvent) + 1
          /\ TotalTranches(positions') <= TotalTranches(positions) + 1
          /\ Eligible = {} => UNCHANGED <<positions, execs, orders, clients, log>>
          /\ \/ UNCHANGED <<positions, execs, orders, clients, log>>
             \/ \E i \in Eligible :
                   /\ \A j \in Eligible : rows[j].pct <= rows[i].pct
                   /\ \A k \in 1..Len(positions') :
                         positions'[k].key # KeyOf(rows[i]) =>
                            k <= Len(positions) /\ positions'[k] = positions[k]
                   /\ Len(TranchesOf(positions', KeyOf(rows[i])))
                         <= Len(TranchesOf(positions, KeyOf(rows[i]))) + 1
                   /\ execs' # execs =>
                         /\ IsOpenCall(execs'[Len(execs')])
                         /\ execs'[Len(execs')].key = KeyOf(rows[i])
                   /\ log' # log =>
                         /\ IsEntryEvent(log'[Len(log')])
                         /\ log'[Len(log')].spread_pct = rows[i].pct
                         /\ log'[Len(log')].funding_rate = rows[i].funding_rate
                         /\ <<log'[Len(log')].spot_exchange, log'[Len(log')].futures_exchange,
                              log'[Len(log')].base>> = KeyOf(rows[i])

C7_Step ==
    (pc = "exit" /\ todo # <<>> /\ env.log_writable) =>
        LET key == Head(todo)
            p == Lookup(positions, key)
            current == CurrentRow(rows, p)
        IN  /\ \A k \in 1..Len(positions) :
                  positions[k].key # key =>
                     /\ HasKey(positions', positions[k].key)
                     /\ Lookup(positions', positions[k].key) = positions[k].pos
            /\ IF /\ current # NoRow
                  /\ current.pct <= args.exit_threshold
                  /\ Lt(Zero, p.notional_usd)
               THEN LET amount == MinUsd(Usd(TRANCHE_USD, 0), p.notional_usd)
                    IN  /\ NotionalOf(positions', key) = Sub(p.notional_usd, amount)
                        /\ Len(execs') = Len(execs) + 1
                        /\ IsCloseCall(execs'[Len(execs')])
                        /\ execs'[Len(execs')].key = key
                        /\ execs'[Len(execs')].usd_amount = amount
                        /\ Len(log') = Len(log) + 1
                        /\ IsExitEvent(log'[Len(log')])
                        /\ log'[Len(log')].usd = amount
               ELSE /\ HasKey(positions', key) /\ Lookup(positions', key) = p
                    /\ UNCHANGED <<execs, log>>

\* C7: in the exit phase of every tick, every position whose triple has a
\* current row with pct <= exit_threshold and whose notional is > 0 has
\* min(TRANCHE_USD, notional_usd) closed, with one executor call in close mode
\* and one exit event appended; every other position keeps its notional and
\* tranches.  (Stated for a writable trade log.)
C7_ExitRule == [][C7_Step]_vars

C8_Step ==
    \A k \in 1..Len(positions') :
        ~HasKey(positions, positions'[k].key) =>
            /\ pc = "entry"
            /\ execs' = Append(execs, execs'[Len(execs')])
            /\ IsOpenCall(execs'[Len(execs')])
            /\ execs'[Len(execs')].key = positions'[k].key
            /\ ~execs'[Len(execs')].raised =>
                  /\ positions'[k].pos.notional_usd = Usd(TRANCHE_USD, 0)
                  /\ Len(positions'[k].pos.tranches) = 1

\* C8: a position is created only when an entry is about to be made for its
\* triple, and at the end of every tick no position of the set has
\* notional_usd <= 1e-9.
C8_Lifecycle ==
    /\ [](pc = "fetch" => \A k \in 1..Len(positions) : Lt(EPS, positions[k].pos.notional_usd))
    /\ [][C8_Step]_vars

\* A tick has ended in which the last tranche of the only position was closed
\* and the position dropped.
C8_Witness ==
    /\ pc = "fetch" /\ positions = <<>>
    /\ execs # <<>> /\ IsCloseCall(execs[Len(execs)]) /\ ~execs[Len(execs)].raised
    /\ execs[Len(execs)].tick = clock - 1

IsOpen(call) == execs[call].action = "open"

\* C9: in live mode the futures order of a tranche is sent before its spot
\* order (sell then buy on entry, buy to cover then sell on exit), and the spot
\* order is sent only after the futures order has returned without error.
C9_LegOrder ==
    \A i \in 1..Len(orders) :
        LET o == orders[i]
        IN  /\ o.call \in 1..Len(execs)
            /\ o.leg = "futures" => o.side = (IF IsOpen(o.call) THEN "sell" ELSE "buy")
            /\ o.leg = "spot" =>
                  /\ o.side = (IF IsOpen(o.call) THEN "buy" ELSE "sell")
                  /\ i > 1
                  /\ orders[i - 1].leg = "futures"
                  /\ orders[i - 1].call = o.call
                  /\ orders[i - 1].ok
                  /\ orders[i - 1].amount = o.amount
            /\ ~o.ok => i = Len(orders)
            /\ \A j \in 1..Len(orders) : (j # i /\ orders[j].call = o.call) => orders[j].leg # o.leg

\* A tranche was opened and a tranche closed with live orders, both legs each.
C9_Witness ==
    /\ args.prog = "auto_trader" /\ args.live /\ Len(orders) = 4
    /\ orders[1].side = "sell" /\ orders[2].side = "buy"
    /\ orders[3].leg = "futures" /\ orders[3].side = "buy" /\ orders[3].ok
    /\ orders[4].leg = "spot" /\ orders[4].side = "sell" /\ orders[4].ok

\* C10 as stated: in dry-run mode no exchange client is created, no order is
\* placed, and every executor call (execute_tranche and execute_live_trade
\* alike) returns a confirmation marked DRY_RUN.
C10_EveryCallConfirms ==
    ~args.live =>
        /\ clients = 0
        /\ orders = <<>>
        /\ \A i \in 1..Len(execs) : execs[i].result.mode = "DRY_RUN"

\* C10 (amended): in dry-run mode no exchange client is created and no order is
\* placed by either program; every call of execute_tranche returns a
\* confirmation marked DRY_RUN with the quantity and the USD amount, and
\* execute_live_trade returns without a value.
C10_DryRun ==
    ~args.live =>
        /\ clients = 0
        /\ orders = <<>>
        /\ \A i \in 1..Len(execs) :
              /\ ~execs[i].raised
              /\ execs[i].fn = "execute_tranche" =>
                    /\ execs[i].result.mode = "DRY_RUN"
                    /\ execs[i].result.usd_amount = execs[i].usd_amount
                    /\ execs[i].result.qty.num = execs[i].usd_amount
                    /\ execs[i].result.qty.den > 0
              /\ execs[i].fn = "execute_live_trade" => execs[i].result = NoResult

\* A dry run opened two tranches and closed one.
C10_Witness ==
    /\ ~args.live /\ args.prog = "auto_trader" /\ Len(execs) = 3
    /\ IsOpenCall(execs[1]) /\ IsOpenCall(execs[2]) /\ IsCloseCall(execs[3])
    /\ execs[3].result.mode = "DRY_RUN" /\ Len(log) = 3

\* ------------------------------------------------------ claims on failures
OrdersOfCall(i) == SelectSeq(orders, LAMBDA o : o.call = i)

\* C11: in live mode, when the credentials of the futures venue or of the spot
\* venue of a tranche are missing, the executor raises before any order of that
\* tranche is sent to either venue.
C11_CredentialsBeforeOrders ==
    args.live =>
        \A i \in 1..Len(execs) :
            (execs[i].key[1] \notin env.creds \/ execs[i].key[2] \notin env.creds) =>
                /\ execs[i].raised
                /\ OrdersOfCall(i) = <<>>

\* The auto-trader called the executor with the futures venue's credentials set
\* and the spot venue's missing: one client was created, no order was sent.
C11_Witness ==
    /\ args.live /\ args.prog = "auto_trader" /\ Len(execs) = 1
    /\ execs[1].fn = "execute_tranche"
    /\ execs[1].key[1] \notin env.creds /\ execs[1].key[2] \in env.creds
    /\ execs[1].raised /\ clients = 1 /\ orders = <<>>

\* C12: when the executor raises while a tranche is opened or closed, the
\* auto-trader loop goes on to the next tick instead of stopping.
C12_LoopContinues ==
    args.prog = "auto_trader" => pc # "crashed"

\* ------------------------------------------------ the evaluators on given maps
IdleBook ==
    /\ pos = EmptyPos /\ last = NoCall /\ clock = 0
    /\ driver = [mode |-> "idle", k |-> 0, phase |-> "enter", n |-> 0,
                 row |-> CHOOSE r0 \in BookRows : TRUE]
IdleTrader ==
    /\ args = IdleArgs /\ env = IdleEnv /\ positions = <<>> /\ rows = <<>> /\ todo = <<>>
    /\ log = <<>> /\ orders = <<>> /\ clients = 0 /\ execs = <<>>

SpotItem(base, price) == [base |-> base, price |-> price]
FuturesItem(base, price, funding_rate) ==
    [base |-> base, price |-> price, funding_rate |-> funding_rate,
     symbol |-> base \o "/USDT:USDT"]

\* The maps and thresholds the evaluators are given. upbit: no price, BTC at 0,
\* below 0, at 10000, BTC and ETH; bithumb: not in the maps, or BTC a little
\* dearer than on upbit; BTC on okx: not listed, no price, no funding rate,
\* funding negative, zero and positive, a price below and at the spot price;
\* min_spread_pct: -300 %, 0, 0.5 %, 1 %.
EvalInputs ==
    LET UpbitPriceOptions ==
            {<<>>, <<SpotItem("BTC", 0)>>, <<SpotItem("BTC", 0 - 10000)>>,
             <<SpotItem("BTC", 10000)>>, <<SpotItem("BTC", 10000), SpotItem("ETH", 20000)>>}
        BithumbOptions ==
            {<<>>, <<[id |-> "bithumb", label |-> "Bit",
                      prices |-> <<SpotItem("BTC", 10001)>>]>>}
        OkxBtcOptions ==
            {<<>>, <<FuturesItem("BTC", None, Some(0))>>,
             <<FuturesItem("BTC", Some(10100), None)>>,
             <<FuturesItem("BTC", Some(10100), Some(0 - 1))>>,
             <<FuturesItem("BTC", Some(10100), Some(0))>>,
             <<FuturesItem("BTC", Some(10050), Some(2))>>,
             <<FuturesItem("BTC", Some(9900), Some(0))>>,
             <<FuturesItem("BTC", Some(10000), Some(0))>>}
        GateBtcOptions ==
            {<<>>, <<FuturesItem("BTC", Some(10100), Some(0))>>,
             <<FuturesItem("BTC", Some(10200), Some(0 - 1))>>}
        GateEthOptions == {<<>>, <<FuturesItem("ETH", Some(20200), Some(1))>>}
        MinPctOptions == {0 - 300000, 0, 500, 1000}
    IN  {[spot_maps |-> <<[id |-> "upbit", label |-> "Up", prices |-> up]>> \o bit,
          futures_maps |-> <<[id |-> "gateio", prices |-> gb \o ge],
                             [id |-> "okx", prices |-> ob]>>,
          min_spread_pct |-> m,
          require_nonnegative_funding |-> f] :
            up \in UpbitPriceOptions, bit \in BithumbOptions, ob \in OkxBtcOptions,
            gb \in GateBtcOptions, ge \in GateEthOptions, m \in MinPctOptions,
            f \in BOOLEAN}

\* The futures maps as the stream engine holds them: one stream per venue, its
\* snapshot keyed by instrument, the resolver giving the base of each key.
FUTURES_LABELS == [okx |-> "OKX", gateio |-> "Gate", hyperliquid |-> "Hyperliquid"]
StreamsOf(futures_maps) ==
    [i \in 1..Len(futures_maps) |->
        [name |-> FUTURES_LABELS[futures_maps[i].id],
         fee |-> Fee(FUTURES_FEES, futures_maps[i].id),
         snapshot |-> [j \in 1..Len(futures_maps[i].prices) |->
                          [key |-> futures_maps[i].prices[j].symbol,
                           base |-> Some(futures_maps[i].prices[j].base),
                           bid |-> futures_maps[i].prices[j].price,
                           funding_rate |-> futures_maps[i].prices[j].funding_rate]]]]

NoOutput == [fn |-> "none", rows |-> <<>>]

InitEval ==
    /\ IdleBook /\ IdleTrader /\ IdleMonitor /\ IdleStream
    /\ pc = "eval"
    /\ ev \in EvalInputs
    /\ evOut = NoOutput

\* identify_contango(spot_maps, futures_maps, min_spread_pct, require_nonnegative_funding)
EvalRest ==
    /\ pc = "eval" /\ evOut = NoOutput
    /\ evOut' = [fn |-> "identify_contango",
                 rows |-> identify_contango(ev.spot_maps, ev.futures_maps, ev.min_spread_pct,
                                            ev.require_nonnegative_funding)]
    /\ UNCHANGED <<bookVars, clock, traderVars, ev, monitorVars, streamVars>>

\* compute_contango(spot_sources, futures_streams, min_spread_pct)
EvalStream ==
    /\ pc = "eval" /\ evOut = NoOutput
    /\ evOut' = [fn |-> "compute_contango",
                 rows |-> compute_contango(ev.spot_maps, StreamsOf(ev.futures_maps),
                                           ev.min_spread_pct)]
    /\ UNCHANGED <<bookVars, clock, traderVars, ev, monitorVars, streamVars>>

NextEval == EvalRest \/ EvalStream

SpecEval == InitEval /\ [][NextEval]_vars

\* ------------------------------------------------------ claims on the evaluators
\* C13: every row an evaluator emits has futures_price > spot_price > 0,
\* spread = futures_price - spot_price and pct = 100 * spread / spot_price (here
\* in units of 0.001 %, rounded down), whatever the maps and min_spread_pct: a
\* zero or negative spot price gives no row.
C13_RowsWellFormed ==
    \A i \in 1..Len(evOut.rows) :
        LET r == evOut.rows[i]
        IN  /\ r.spot_price > 0
            /\ r.futures_price > r.spot_price
            /\ r.spread = r.futures_price - r.spot_price
            /\ r.pct * r.spot_price <= r.spread * 100000
            /\ r.spread * 100000 < (r.pct + 1) * r.spot_price

\* The spot items and futures items an evaluation was given.
SpotVenues == 1..Len(ev.spot_maps)
FuturesVenues == 1..Len(ev.futures_maps)
FuturesBases(f) == 1..Len(ev.futures_maps[f].prices)

\* The combination is priced on both sides, its spread is positive and its
\* percentage is at least min_spread_pct (min_spread_pct being a multiple of
\* 0.1 %, the comparison is made without dividing).
SpreadAdmitted(sp, fp) ==
    /\ fp - sp > 0
    /\ IF sp > 0 THEN (fp - sp) * 1000 >= (ev.min_spread_pct \div 100) * sp
                 ELSE (fp - sp) * 1000 <= (ev.min_spread_pct \div 100) * sp
Admitted(s, f, b) ==
    LET item == ev.futures_maps[f].prices[b]
        spot == ev.spot_maps[s].prices
    IN  /\ item.price.some
        /\ \E k \in 1..Len(spot) :
              /\ spot[k].base = item.base /\ spot[k].price # 0
              /\ SpreadAdmitted(spot[k].price, item.price.v)
        /\ item.funding_rate.some
        /\ ev.require_nonnegative_funding => item.funding_rate.v >= 0
RowsOf(s, f, b) ==
    {i \in 1..Len(evOut.rows) :
        /\ evOut.rows[i].spot_exchange = ev.spot_maps[s].id
        /\ evOut.rows[i].exchange = ev.futures_maps[f].id
        /\ evOut.rows[i].base = ev.futures_maps[f].prices[b].base}

\* C14: identify_contango emits only rows with pct >= min_spread_pct, and
\* exactly one row for every combination that is priced on both sides with a
\* positive spread, pct >= min_spread_pct and an admissible funding rate; no
\* other row.
C14_SpreadFilter ==
    evOut.fn = "identify_contango" =>
        /\ \A i \in 1..Len(evOut.rows) : evOut.rows[i].pct >= ev.min_spread_pct
        /\ \A s \in SpotVenues, f \in FuturesVenues : \A b \in FuturesBases(f) :
              Cardinality(RowsOf(s, f, b)) = IF Admitted(s, f, b) THEN 1 ELSE 0
        /\ \A i \in 1..Len(evOut.rows) :
              \E s \in SpotVenues, f \in FuturesVenues : \E b \in FuturesBases(f) :
                 i \in RowsOf(s, f, b)

\* Two spot venues, min_spread_pct 1 %: the three combinations at exactly 1 %
\* gave a row each, the ones below it none.
C14_Witness ==
    /\ evOut.fn = "identify_contango" /\ ev.min_spread_pct = 1000
    /\ Len(ev.spot_maps) = 2 /\ Len(evOut.rows) = 3
    /\ \A i \in 1..3 : evOut.rows[i].pct = 1000
    /\ \E f \in FuturesVenues : \E b \in FuturesBases(f) : ~Admitted(2, f, b)

\* C15: no row of identify_contango has a missing funding rate; with
\* require_nonnegative_funding set none has a negative one; with the flag clear
\* the combinations with negative funding that pass the other tests are emitted.
C15_FundingFilter ==
    evOut.fn = "identify_contango" =>
        /\ \A i \in 1..Len(evOut.rows) :
              /\ evOut.rows[i].funding_rate.some
              /\ ev.require_nonnegative_funding => evOut.rows[i].funding_rate.v >= 0
        /\ ~ev.require_nonnegative_funding =>
              \A s \in SpotVenues, f \in FuturesVenues : \A b \in FuturesBases(f) :
                 (Admitted(s, f, b) /\ ev.futures_maps[f].prices[b].funding_rate.v < 0)
                    => RowsOf(s, f, b) # {}

\* The flag is clear and a row with negative funding was emitted, while a
\* combination without a funding rate was not.
C15_Witness ==
    /\ evOut.fn = "identify_contango" /\ ~ev.require_nonnegative_funding
    /\ \E i \in 1..Len(evOut.rows) : evOut.rows[i].funding_rate.v < 0
    /\ \E b \in FuturesBases(2) : ~ev.futures_maps[2].prices[b].funding_rate.some
    /\ Len(ev.spot_maps[1].prices) = 2

\* C16: compute_contango emits no row for an instrument whose funding rate is
\* missing from the futures snapshot.
C16_StreamFundingPresent ==
    evOut.fn = "compute_contango" =>
        \A i \in 1..Len(evOut.rows) : evOut.rows[i].funding_rate.some

\* C17: the list an evaluator returns is in non-increasing order of pct.
C17_RankedByPct ==
    \A i \in 1..Len(evOut.rows) : \A j \in 1..Len(evOut.rows) :
        i < j => evOut.rows[i].pct >= evOut.rows[j].pct

\* Four rows or more were returned, of different pct, and the order by pct is
\* not the order by net_pct.
C17_Witness ==
    /\ evOut.fn \in {"identify_contango", "compute_contango"}
    /\ Len(evOut.rows) >= 4
    /\ evOut.rows[1].pct > evOut.rows[Len(evOut.rows)].pct
    /\ \E i \in 1..Len(evOut.rows) - 1 : evOut.rows[i].net_pct < evOut.rows[i + 1].net_pct

\* ------------------------------------------------------ contango_monitor.main
ttl_seconds == 30
MaxPolls == 2
\* args.interval: the seconds main sleeps between two refreshes
Intervals == {10, 30}
\* args.min_pct, 0.1 % by default
min_pct == 100

SPOT_CONFIGS ==
    <<[exchange_id |-> "upbit", short_label |-> "Up"],
      [exchange_id |-> "bithumb", short_label |-> "Bit"]>>

\* A ticker of a payload's "prices": the symbol "<base>/<quote>", ask and last.
Ticker(base, quote, ask, lastPx) ==
    [base |-> base, quote |-> quote, ask |-> ask, last |-> lastPx]

\* a or b, on optional numbers: None and 0 are falsy
OrElse(a, b) == IF a.some /\ a.v # 0 THEN a ELSE b

\* prices.get("USDT/KRW")
RECURSIVE GetTicker(_, _, _)
GetTicker(prices, base, quote) ==
    IF prices = <<>> THEN None
    ELSE IF Head(prices).base = base /\ Head(prices).quote = quote THEN Some(Head(prices))
    ELSE GetTicker(Tail(prices), base, quote)

\* self._rates.get(exchange_id)
RECURSIVE GetRecord(_, _)
GetRecord(rs, exchange_id) ==
    IF rs = <<>> THEN None
    ELSE IF Head(rs).id = exchange_id THEN Some(Head(rs))
    ELSE GetRecord(Tail(rs), exchange_id)

\* self._rates[exchange_id] = record
RECURSIVE SetRecord(_, _)
SetRecord(rs, record) ==
    IF rs = <<>> THEN <<record>>
    ELSE IF Head(rs).id = record.id THEN <<record>> \o Tail(rs)
    ELSE <<Head(rs)>> \o SetRecord(Tail(rs), record)

\* del self._rates[exchange_id], if present
RECURSIVE DelRecord(_, _)
DelRecord(rs, exchange_id) ==
    IF rs = <<>> THEN <<>>
    ELSE IF Head(rs).id = exchange_id THEN Tail(rs)
    ELSE <<Head(rs)>> \o DelRecord(Tail(rs), exchange_id)

\* raw_value of get_rate: None when there is no USDT/KRW ticker
RawValue(prices) ==
    LET info == GetTicker(prices, "USDT", "KRW")
    IN  IF info.some THEN OrElse(info.v.ask, info.v.last) ELSE None

RateRaised(rs) == [raised |-> TRUE, rate |-> 0, rates |-> rs]
RateReturned(rate, rs) == [raised |-> FALSE, rate |-> rate, rates |-> rs]

\* Variant: within the TTL the cached rate is returned whatever the ticker says.
get_rate_Sticky(rs, exchange_id, prices, now) ==
    LET raw_value == RawValue(prices)
        record == GetRecord(rs, exchange_id)
    IN  IF ~raw_value.some THEN RateRaised(rs)
        ELSE IF record.some /\ now - record.v.timestamp < ttl_seconds
             THEN RateReturned(record.v.rate, rs)
             ELSE RateReturned(raw_value.v,
                               SetRecord(rs, [id |-> exchange_id, rate |-> raw_value.v,
                                              timestamp |-> now, raw |-> raw_value.v]))

\* Variant: a venue whose ticker is missing loses its cached rate.
get_rate_Forget(rs, exchange_id, prices, now) ==
    LET raw_value == RawValue(prices)
        record == GetRecord(rs, exchange_id)
    IN  IF ~raw_value.some THEN RateRaised(DelRecord(rs, exchange_id))
        ELSE IF /\ record.some /\ raw_value.v = record.v.raw
                /\ now - record.v.timestamp < ttl_seconds
             THEN RateReturned(record.v.rate, rs)
             ELSE RateReturned(raw_value.v,
                               SetRecord(rs, [id |-> exchange_id, rate |-> raw_value.v,
                                              timestamp |-> now, raw |-> raw_value.v]))

\* USDKRWCache.get_rate(exchange_id, prices) at time now, on the cache rs: whether
\* it raised ContangoError, the rate returned, the cache afterwards.
get_rate(rs, exchange_id, prices, now) ==
    LET raw_value == RawValue(prices)
        record == GetRecord(rs, exchange_id)
    IN  IF ~raw_value.some THEN RateRaised(rs)
        ELSE IF /\ record.some /\ raw_value.v = record.v.raw
                /\ now - record.v.timestamp < ttl_seconds
             THEN RateReturned(record.v.rate, rs)
             ELSE RateReturned(raw_value.v,
                               SetRecord(rs, [id |-> exchange_id, rate |-> raw_value.v,
                                              timestamp |-> now, raw |-> raw_value.v]))

\* spot_usd of build_spot_usd_maps: the "/KRW" tickers with a price, in USD
RECURSIVE SpotUsd(_, _)
SpotUsd(prices, usdkrw) ==
    IF prices = <<>> THEN <<>>
    ELSE LET ticker == Head(prices)
             price == OrElse(ticker.ask, ticker.last)
         IN  IF ticker.quote = "KRW" /\ price.some
             THEN <<SpotItem(ticker.base, price.v \div usdkrw)>> \o SpotUsd(Tail(prices), usdkrw)
             ELSE SpotUsd(Tail(prices), usdkrw)

\* What the loop of build_spot_usd_maps did with one venue.
VenueResult(cfg, called, g, before) ==
    [id |-> cfg.exchange_id, called |-> called, raised |-> g.raised, rate |-> g.rate,
     before |-> before, after |-> g.rates]

\* The loop of build_spot_usd_maps from SPOT_CONFIGS[i] on. A rate of 0 makes
\* float(price) / usdkrw raise ZeroDivisionError (crashed).
RECURSIVE BuildFrom(_, _, _, _)
BuildFrom(i, payloads, now, acc) ==
    IF i > Len(SPOT_CONFIGS) \/ acc.crashed THEN acc
    ELSE LET cfg == SPOT_CONFIGS[i]
             payload == payloads[i]
             g == get_rate(acc.rates, cfg.exchange_id, payload.prices, now)
             result == VenueResult(cfg, TRUE, g, acc.rates)
             spot_usd == SpotUsd(payload.prices, g.rate)
         IN  IF payload.kind = "error"
             THEN BuildFrom(i + 1, payloads, now,
                            [acc EXCEPT !.results = Append(@, VenueResult(cfg, FALSE,
                                                         RateRaised(acc.rates), acc.rates))])
             ELSE IF g.raised
             THEN BuildFrom(i + 1, payloads, now,
                            [acc EXCEPT !.rates = g.rates, !.results = Append(@, result)])
             ELSE IF g.rate = 0
             THEN [acc EXCEPT !.rates = g.rates, !.results = Append(@, result),
                              !.crashed = TRUE]
             ELSE BuildFrom(i + 1, payloads, now,
                            [acc EXCEPT !.rates = g.rates, !.results = Append(@, result),
                                        !.spot_maps =
                                            IF spot_usd # <<>>
                                            THEN Append(@, [id |-> cfg.exchange_id,
                                                            label |-> cfg.short_label,
                                                            prices |-> spot_usd])
                                            ELSE @])

\* build_spot_usd_maps(executor) on the payloads fetch_exchange_group returned:
\* raised says ContangoError("No KRW spot prices available.").
build_spot_usd_maps(rs, payloads, now) ==
    LET acc == BuildFrom(1, payloads, now,
                         [rates |-> rs, spot_maps |-> <<>>, results |-> <<>>,
                          crashed |-> FALSE])
    IN  [rates |-> acc.rates, spot_maps |-> acc.spot_maps, results |-> acc.results,
         crashed |-> acc.crashed, raised |-> ~acc.crashed /\ acc.spot_maps = <<>>]

\* The payloads fetch_exchange_group returns for the spot venues in a refresh:
\* an error, or prices without USDT/KRW, with USDT/KRW without a price, with a
\* price in ask or in last, or at 0.
SpotPayloads ==
    LET ErrorPayload == [kind |-> "error", prices |-> <<>>]
        BtcKrw == Ticker("BTC", "KRW", Some(10100000), None)
        BtcKrwLast == Ticker("BTC", "KRW", None, Some(10100000))
        BtcUsdt == Ticker("BTC", "USDT", Some(10300), None)
    IN  [upbit |->
            {ErrorPayload} \cup
            {[kind |-> "prices", prices |-> p] : p \in
                {<<BtcKrw>>,
                 <<Ticker("USDT", "KRW", None, None), BtcKrw>>,
                 <<Ticker("USDT", "KRW", Some(1000), None), BtcKrw, BtcUsdt>>,
                 <<BtcKrw, Ticker("USDT", "KRW", Some(1010), Some(1000))>>,
                 <<Ticker("USDT", "KRW", Some(0), Some(1010)), BtcKrw>>,
                 <<Ticker("USDT", "KRW", Some(0), Some(0)), BtcKrw>>}},
         bithumb |->
            {ErrorPayload} \cup
            {[kind |-> "prices", prices |-> p] : p \in
                {<<BtcKrwLast, BtcUsdt>>,
                 <<Ticker("USDT", "KRW", Some(1000), None), BtcKrwLast>>,
                 <<Ticker("USDT", "KRW", None, Some(1010)), BtcKrwLast>>}}]
\* build_futures_maps(executor), as returned in every refresh of a run
MonitorFutures ==
    <<[id |-> "hyperliquid", prices |-> <<>>],
      [id |-> "gateio", prices |-> <<FuturesItem("ETH", Some(20200), Some(1))>>],
      [id |-> "okx", prices |-> <<FuturesItem("BTC", Some(10200), Some(0))>>]>>

\* The calls of get_rate that returned, latest per venue: raw input, time, rate.
RECURSIVE LastCalls(_, _, _, _)
LastCalls(calls, results, payloads, now) ==
    IF results = <<>> THEN calls
    ELSE LET r == Head(results)
             i == CHOOSE k \in 1..Len(SPOT_CONFIGS) : SPOT_CONFIGS[k].exchange_id = r.id
             next == IF r.called /\ ~r.raised
                     THEN [calls EXCEPT ![i] = Some([raw |-> RawValue(payloads[i].prices).v,
                                                     now |-> now, rate |-> r.rate])]
                     ELSE calls
         IN  LastCalls(next, Tail(results), payloads, now)

NoRefresh ==
    [payloads |-> <<>>, at |-> 0, results |-> <<>>, outcome |-> "none", spot_maps |-> <<>>,
     rows |-> <<>>, prev |-> <<None, None>>]

InitMonitor ==
    /\ IdleBook /\ IdleTrader /\ IdleEval /\ IdleStream
    /\ pc = "monitor"
    /\ rates = <<>>
    /\ \E once \in BOOLEAN :
          mon = [now |-> 0, polls |-> 0, once |-> once, calls |-> <<None, None>>,
                 refresh |-> NoRefresh]

\* One pass of the loop of main: build_spot_usd_maps, build_futures_maps,
\* identify_contango, print; ContangoError is caught and printed; then --once
\* ends the loop, else main sleeps args.interval.
Refresh ==
    /\ pc = "monitor" /\ mon.polls < MaxPolls
    /\ \E p1 \in SpotPayloads.upbit, p2 \in SpotPayloads.bithumb, interval \in Intervals :
          LET payloads == <<p1, p2>>
              b == build_spot_usd_maps(rates, payloads, mon.now)
              outcome == IF b.crashed THEN "crashed" ELSE IF b.raised THEN "error" ELSE "rows"
              out == IF outcome = "rows"
                     THEN identify_contango(b.spot_maps, MonitorFutures, min_pct, TRUE)
                     ELSE <<>>
          IN  /\ rates' = b.rates
              /\ mon' = [mon EXCEPT
                            !.polls = @ + 1,
                            !.now = IF b.crashed \/ mon.once THEN @ ELSE @ + interval,
                            !.calls = LastCalls(@, b.results, payloads, mon.now),
                            !.refresh = [payloads |-> payloads, at |-> mon.now,
                                         results |-> b.results, outcome |-> outcome,
                                         spot_maps |-> b.spot_maps, rows |-> out,
                                         prev |-> mon.calls]]
              /\ pc' = IF b.crashed THEN "crashed" ELSE IF mon.once THEN "done" ELSE "monitor"
    /\ UNCHANGED <<bookVars, clock, args, env, positions, rows, todo, log, orders, clients,
                   execs, evalVars, streamVars>>

SpecMonitor == InitMonitor /\ [][Refresh]_vars

\* ------------------------------------------------------ claims on the USD rate
\* The venues of the last refresh, and what get_rate was given for them.
RefreshVenues == 1..Len(mon.refresh.results)
PayloadOf(i) ==
    mon.refresh.payloads[CHOOSE k \in 1..Len(SPOT_CONFIGS) :
                            SPOT_CONFIGS[k].exchange_id = mon.refresh.results[i].id]
PrevCallOf(i) ==
    mon.refresh.prev[CHOOSE k \in 1..Len(SPOT_CONFIGS) :
                        SPOT_CONFIGS[k].exchange_id = mon.refresh.results[i].id]
RateGiven(i) == mon.refresh.results[i].called /\ ~mon.refresh.results[i].raised
WithinTTL(i) ==
    /\ RateGiven(i) /\ PrevCallOf(i).some
    /\ mon.refresh.at - PrevCallOf(i).v.now < ttl_seconds

\* C18: of two get_rate calls for one venue within the TTL, the second returns
\* the rate the first returned when the raw USDT/KRW input is the same, and the
\* new value when the raw input has changed.
C18_RateMemo ==
    \A i \in RefreshVenues :
        WithinTTL(i) =>
            LET raw == RawValue(PayloadOf(i).prices).v
            IN  /\ raw = PrevCallOf(i).v.raw => mon.refresh.results[i].rate = PrevCallOf(i).v.rate
                /\ raw # PrevCallOf(i).v.raw => mon.refresh.results[i].rate = raw

\* In one refresh, within the TTL of the calls before: one venue's raw input
\* was the same and the cache was left as it was, the other's had changed and
\* the cache took the new value.
C18_Witness ==
    /\ Len(mon.refresh.results) = 2 /\ WithinTTL(1) /\ WithinTTL(2)
    /\ RawValue(PayloadOf(1).prices).v # PrevCallOf(1).v.raw
    /\ mon.refresh.results[1].after # mon.refresh.results[1].before
    /\ RawValue(PayloadOf(2).prices).v = PrevCallOf(2).v.raw
    /\ mon.refresh.results[2].after = mon.refresh.results[2].before

\* The quotes of the venue have no USDT/KRW entry, or one without a price.
MissingUsdKrw(prices) ==
    \/ \A k \in 1..Len(prices) : ~(prices[k].base = "USDT" /\ prices[k].quote = "KRW")
    \/ \E k \in 1..Len(prices) :
          /\ prices[k].base = "USDT" /\ prices[k].quote = "KRW"
          /\ ~prices[k].ask.some /\ ~prices[k].last.some
\* The venue's quotes give a positive USDT/KRW rate.
Usable(payload) ==
    /\ payload.kind = "prices"
    /\ \E k \in 1..Len(payload.prices) :
          /\ payload.prices[k].base = "USDT" /\ payload.prices[k].quote = "KRW"
          /\ \/ payload.prices[k].ask.some /\ payload.prices[k].ask.v > 0
             \/ payload.prices[k].last.some /\ payload.prices[k].last.v > 0
RowsOfVenue(id) == {k \in 1..Len(mon.refresh.rows) : mon.refresh.rows[k].spot_exchange = id}

\* C19: when a venue's quotes have no USDT/KRW entry or one with no price,
\* get_rate raises and leaves the rate cache as it was, the venue has no spot
\* map and no row in this refresh, and the refresh still returns the rows of
\* every other venue whose quotes are usable.
C19_MissingUsdKrw ==
    \A i \in RefreshVenues :
        (PayloadOf(i).kind = "prices" /\ MissingUsdKrw(PayloadOf(i).prices)) =>
            LET r == mon.refresh.results[i]
            IN  /\ r.called /\ r.raised /\ r.after = r.before
                /\ \A k \in 1..Len(mon.refresh.spot_maps) : mon.refresh.spot_maps[k].id # r.id
                /\ RowsOfVenue(r.id) = {}
                /\ \A j \in 1..Len(SPOT_CONFIGS) :
                      (SPOT_CONFIGS[j].exchange_id # r.id /\ Usable(mon.refresh.payloads[j]))
                         => /\ mon.refresh.outcome = "rows"
                            /\ RowsOfVenue(SPOT_CONFIGS[j].exchange_id) # {}

\* A venue that had a cached rate came without USDT/KRW; the cache kept the
\* rate, and the other venue's row was returned.
C19_Witness ==
    /\ Len(mon.refresh.results) = 2
    /\ PayloadOf(1).kind = "prices" /\ MissingUsdKrw(PayloadOf(1).prices)
    /\ GetRecord(mon.refresh.results[1].before, "upbit").some
    /\ GetRecord(rates, "upbit").some
    /\ RowsOfVenue("upbit") = {} /\ RowsOfVenue("bithumb") # {}

\* ------------------------------------------------------ futures stream clients
MaxFrames == 2

\* A value of a decoded frame: absent or null ("none"), a number ("num"), the
\* string of a number ("str"), or a string that is no number ("bad").
Raw(kind, v) == [kind |-> kind, v |-> v]

\* safe_float(value)
safe_float(value) == IF value.kind \in {"num", "str"} THEN Some(value.v) ELSE None

\* A level of an order book: a list [price, size] ("list"), an object ("dict"),
\* or null.
Level(kind, px) == [kind |-> kind, px |-> px]

\* normalize_base(symbol) of hyperliquid_ws_monitor: hyphens removed, upper case
normalize_base(symbol) ==
    CASE symbol = "btc" -> "BTC"
      [] symbol = "k-PEPE" -> "KPEPE"
      [] OTHER -> symbol

\* A record of a client's cache; a field that is None is a key the dict lacks.
EmptyRecord(key) ==
    [key |-> key, bid |-> None, ask |-> None, mark |-> None, funding_rate |-> None,
     timestamp |-> None]

RECURSIVE HasRecord(_, _)
HasRecord(records, key) ==
    /\ records # <<>>
    /\ (Head(records).key = key \/ HasRecord(Tail(records), key))

\* self.cache.setdefault(key, {})
SetDefault(records, key) ==
    IF HasRecord(records, key) THEN records ELSE Append(records, EmptyRecord(key))

\* Variant: a field the frame has no value for is erased.
MergeField_Overwrite(old, new) == new

\* if value is not None: record[field] = value
MergeField(old, new) == IF new.some THEN new ELSE old

\* The body of an update under the lock: the fields given, and the timestamp.
Merge(records, key, bid, ask, mark, funding, now) ==
    LET rs == SetDefault(records, key)
    IN  [i \in 1..Len(rs) |->
            IF rs[i].key = key
            THEN [rs[i] EXCEPT !.bid = MergeField(@, bid), !.ask = MergeField(@, ask),
                               !.mark = MergeField(@, mark),
                               !.funding_rate = MergeField(@, funding),
                               !.timestamp = Some(now)]
            ELSE rs[i]]

\* What a handler did: whether it raised, and the cache it left.
Handled(records) == [raised |-> FALSE, records |-> records]
HandlerRaised(records) == [raised |-> TRUE, records |-> records]

\* Frames name their instrument by a string, which may be absent or empty:
\* `if not contract: return`.
Truthy(key) == key.some /\ key.v # ""

\* safe_float(levels[0][0]) if levels else None: on an object level the index 0
\* raises KeyError
FirstPrice(levels) ==
    IF levels = <<>> THEN [raised |-> FALSE, px |-> None]
    ELSE IF levels[1].kind = "list" THEN [raised |-> FALSE, px |-> safe_float(levels[1].px)]
    ELSE [raised |-> TRUE, px |-> None]

\* GateWebSocketClient._update_from_ticker(result)
gate_update_from_ticker(records, result, now) ==
    IF ~Truthy(result.contract) THEN Handled(records)
    ELSE Handled(Merge(records, result.contract.v, safe_float(result.best_bid),
                       safe_float(result.best_ask), safe_float(result.mark_price), None, now))

\* GateWebSocketClient._update_from_order_book(result)
gate_update_from_order_book(records, result, now) ==
    LET bid == FirstPrice(result.bids)
        ask == FirstPrice(result.asks)
    IN  IF ~Truthy(result.contract) THEN Handled(records)
        ELSE IF bid.raised \/ ask.raised THEN HandlerRaised(records)
        ELSE Handled(Merge(records, result.contract.v, bid.px, ask.px, None, None, now))

\* GateWebSocketClient._update_from_funding(result)
gate_update_from_funding(records, result, now) ==
    IF ~Truthy(result.contract) THEN Handled(records)
    ELSE Handled(Merge(records, result.contract.v, None, None, None,
                       safe_float(result.funding_rate), now))

\* OKXWebSocketClient._update_from_books(entry)
okx_update_from_books(records, entry, now) ==
    LET bid == FirstPrice(entry.bids)
        ask == FirstPrice(entry.asks)
    IN  IF ~Truthy(entry.instId) THEN Handled(records)
        ELSE IF bid.raised \/ ask.raised THEN HandlerRaised(records)
        ELSE Handled(Merge(records, entry.instId.v, bid.px, ask.px, None, None, now))

\* OKXWebSocketClient._update_from_ticker(entry)
okx_update_from_ticker(records, entry, now) ==
    IF ~Truthy(entry.instId) THEN Handled(records)
    ELSE Handled(Merge(records, entry.instId.v, safe_float(entry.bidPx),
                       safe_float(entry.askPx), safe_float(entry.markPx), None, now))

\* OKXWebSocketClient._update_funding(entry)
okx_update_funding(records, entry, now) ==
    IF ~Truthy(entry.instId) THEN Handled(records)
    ELSE Handled(Merge(records, entry.instId.v, None, None, None,
                       safe_float(entry.fundingRate), now))

\* safe_float(level[0]) if level else None, level being bbo[i] or None
LevelPrice(bbo, i) ==
    IF Len(bbo) < i \/ bbo[i].kind = "null" THEN [raised |-> FALSE, px |-> None]
    ELSE IF bbo[i].kind = "list" THEN [raised |-> FALSE, px |-> safe_float(bbo[i].px)]
    ELSE [raised |-> TRUE, px |-> None]

\* HyperliquidWebSocketClient._update_bbo(data); data.get("coin", "")
hl_update_bbo(records, data, now) ==
    LET coin == normalize_base(data.coin)
        bid == LevelPrice(data.bbo, 1)
        ask == LevelPrice(data.bbo, 2)
    IN  IF coin = "" THEN Handled(records)
        ELSE IF bid.raised \/ ask.raised THEN HandlerRaised(records)
        ELSE Handled(Merge(records, coin, bid.px, ask.px, None, None, now))

\* HyperliquidWebSocketClient._update_ctx(data): the coin is not tested
hl_update_ctx(records, data, now) ==
    Handled(Merge(records, normalize_base(data.coin), None, None, None,
                  safe_float(data.funding), now))

\* The frames of a run, by client and handler.
Frames ==
    LET Absent == Raw("none", 0)
        Bad == Raw("bad", 0)
        Num(n) == Raw("num", n)
        Str(n) == Raw("str", n)
        ListLevel(px) == Level("list", px)
        DictLevel == Level("dict", Absent)
        NullLevel == Level("null", Absent)
        Contracts == {Some("BTC_USDT"), Some("ETH_USDT")}
        InstIds == {Some("BTC-USDT-SWAP"), Some("ETH-USDT-SWAP")}
        Coins == {"BTC", "btc", "k-PEPE", ""}
        TickerValues ==
            {<<Num(100), Num(102), Num(103)>>, <<Str(101), Absent, Absent>>,
             <<Bad, Num(104), Absent>>, <<Absent, Absent, Str(105)>>,
             <<Absent, Absent, Absent>>}
        BookValues ==
            {<< <<ListLevel(Str(100)), ListLevel(Str(99))>>, <<ListLevel(Str(102))>> >>,
             << <<ListLevel(Bad)>>, <<>> >>,
             << <<>>, <<ListLevel(Num(106))>> >>,
             << <<DictLevel>>, <<DictLevel>> >>}
        FundingValues == {Str(1), Num(0 - 1), Bad, Absent}
        BboValues ==
            {<<ListLevel(Str(100)), ListLevel(Str(102))>>, <<NullLevel, ListLevel(Str(107))>>,
             <<ListLevel(Bad)>>, <<>>, <<DictLevel, DictLevel>>}
    IN  [gate_ticker |->
            {[contract |-> k, best_bid |-> v[1], best_ask |-> v[2], mark_price |-> v[3]] :
                k \in Contracts, v \in TickerValues}
            \cup {[contract |-> None, best_bid |-> Num(100), best_ask |-> Num(102),
                   mark_price |-> Num(103)]},
         gate_book |->
            {[contract |-> k, bids |-> v[1], asks |-> v[2]] : k \in Contracts, v \in BookValues}
            \cup {[contract |-> Some(""), bids |-> <<ListLevel(Str(100))>>, asks |-> <<>>]},
         gate_funding |->
            {[contract |-> k, funding_rate |-> v] : k \in Contracts, v \in FundingValues}
            \cup {[contract |-> None, funding_rate |-> Str(1)]},
         okx_book |->
            {[instId |-> k, bids |-> v[1], asks |-> v[2]] : k \in InstIds, v \in BookValues}
            \cup {[instId |-> None, bids |-> <<ListLevel(Str(100))>>, asks |-> <<>>]},
         okx_ticker |->
            {[instId |-> k, bidPx |-> v[1], askPx |-> v[2], markPx |-> v[3]] :
                k \in InstIds, v \in TickerValues}
            \cup {[instId |-> Some(""), bidPx |-> Num(100), askPx |-> Num(102),
                   markPx |-> Num(103)]},
         okx_funding |->
            {[instId |-> k, fundingRate |-> v] : k \in InstIds, v \in FundingValues}
            \cup {[instId |-> None, fundingRate |-> Str(1)]},
         hl_bbo |-> {[coin |-> c, bbo |-> v] : c \in Coins, v \in BboValues},
         hl_ctx |-> {[coin |-> c, funding |-> v] : c \in Coins, v \in FundingValues}]

NoFrame == [client |-> "none", handler |-> "none", frame |-> <<>>, before |-> <<>>,
            raised |-> FALSE, now |-> 0]

InitStream ==
    /\ IdleBook /\ IdleTrader /\ IdleEval /\ IdleMonitor
    /\ pc = "stream"
    /\ cache = [gate |-> <<>>, okx |-> <<>>, hyperliquid |-> <<>>]
    /\ lastFrame = NoFrame
    /\ upbit = <<>> /\ engine = <<>> /\ ws = <<>>

\* A client has handled a frame at time clock + 1: out is what the handler did
\* to the cache and, for _handle_message, what it sent on the connection.
Receive(client, handler, frame, out) ==
    /\ pc = "stream" /\ clock < MaxFrames
    /\ clock' = clock + 1
    /\ cache' = [cache EXCEPT ![client] = out.records]
    /\ lastFrame' = [client |-> client, handler |-> handler, frame |-> frame,
                     before |-> cache[client], raised |-> out.raised, now |-> clock + 1]
    /\ ws' = IF "sent" \in DOMAIN out THEN ws \o out.sent ELSE ws
    /\ UNCHANGED <<bookVars, traderVars, evalVars, monitorVars, upbit, engine>>

GateTicker ==
    \E f \in Frames.gate_ticker :
        Receive("gate", "ticker", f, gate_update_from_ticker(cache.gate, f, clock + 1))
GateOrderBook ==
    \E f \in Frames.gate_book :
        Receive("gate", "book", f, gate_update_from_order_book(cache.gate, f, clock + 1))
GateFunding ==
    \E f \in Frames.gate_funding :
        Receive("gate", "funding", f, gate_update_from_funding(cache.gate, f, clock + 1))
OkxBooks ==
    \E f \in Frames.okx_book :
        Receive("okx", "book", f, okx_update_from_books(cache.okx, f, clock + 1))
OkxTicker ==
    \E f \in Frames.okx_ticker :
        Receive("okx", "ticker", f, okx_update_from_ticker(cache.okx, f, clock + 1))
OkxFunding ==
    \E f \in Frames.okx_funding :
        Receive("okx", "funding", f, okx_update_funding(cache.okx, f, clock + 1))
HlBbo ==
    \E f \in Frames.hl_bbo :
        Receive("hyperliquid", "book", f, hl_update_bbo(cache.hyperliquid, f, clock + 1))
HlCtx ==
    \E f \in Frames.hl_ctx :
        Receive("hyperliquid", "funding", f, hl_update_ctx(cache.hyperliquid, f, clock + 1))

NextStream ==
    \/ GateTicker \/ GateOrderBook \/ GateFunding
    \/ OkxBooks \/ OkxTicker \/ OkxFunding
    \/ HlBbo \/ HlCtx

SpecStream == InitStream /\ [][NextStream]_vars

\* ------------------------------------------------------ claims on the quote caches
\* The instrument the last frame names ("" when it names none), the cache of the
\* client that handled it before and after, and the record of that instrument.
FrameKey ==
    LET named == CASE lastFrame.client = "gate" -> lastFrame.frame.contract
                   [] lastFrame.client = "okx" -> lastFrame.frame.instId
                   [] lastFrame.client = "hyperliquid" ->
                          Some(normalize_base(lastFrame.frame.coin))
    IN  IF named.some THEN named.v ELSE ""
CacheBefore == lastFrame.before
CacheAfter == cache[lastFrame.client]
OtherRecords(records) == SelectSeq(records, LAMBDA r : r.key # FrameKey)
NamedRecord(records) ==
    IF \E i \in 1..Len(records) : records[i].key = FrameKey
    THEN records[CHOOSE i \in 1..Len(records) : records[i].key = FrameKey]
    ELSE EmptyRecord(FrameKey)

\* The parseable value the last frame carries for a field, if any.
Parsed(value) == IF value.kind \in {"num", "str"} THEN Some(value.v) ELSE None
LevelValue(levels, i) ==
    IF Len(levels) >= i /\ levels[i].kind = "list" THEN Parsed(levels[i].px) ELSE None
Carried(field) ==
    LET f == lastFrame.frame
    IN  CASE lastFrame.handler = "ticker" /\ lastFrame.client = "gate" ->
                 CASE field = "bid" -> Parsed(f.best_bid)
                   [] field = "ask" -> Parsed(f.best_ask)
                   [] field = "mark" -> Parsed(f.mark_price)
                   [] OTHER -> None
          [] lastFrame.handler = "ticker" /\ lastFrame.client = "okx" ->
                 CASE field = "bid" -> Parsed(f.bidPx)
                   [] field = "ask" -> Parsed(f.askPx)
                   [] field = "mark" -> Parsed(f.markPx)
                   [] OTHER -> None
          [] lastFrame.handler = "book" /\ lastFrame.client = "hyperliquid" ->
                 CASE field = "bid" -> LevelValue(f.bbo, 1)
                   [] field = "ask" -> LevelValue(f.bbo, 2)
                   [] OTHER -> None
          [] lastFrame.handler = "book" /\ lastFrame.client # "hyperliquid" ->
                 CASE field = "bid" -> LevelValue(f.bids, 1)
                   [] field = "ask" -> LevelValue(f.asks, 1)
                   [] OTHER -> None
          [] lastFrame.handler = "funding" /\ lastFrame.client = "gate" ->
                 IF field = "funding_rate" THEN Parsed(f.funding_rate) ELSE None
          [] lastFrame.handler = "funding" /\ lastFrame.client = "okx" ->
                 IF field = "funding_rate" THEN Parsed(f.fundingRate) ELSE None
          [] lastFrame.handler = "funding" /\ lastFrame.client = "hyperliquid" ->
                 IF field = "funding_rate" THEN Parsed(f.funding) ELSE None
QuoteFields == {"bid", "ask", "mark", "funding_rate"}

\* C20: a frame changes, in the record of the instrument it names, only the
\* fields it carries a parseable value for (bid and ask for a book frame, bid,
\* ask and mark for a ticker frame, funding_rate for a funding frame) and the
\* timestamp; the other fields of the record and the records of the other
\* instruments stay as they were. A frame that names an instrument and is
\* handled to the end sets every field it carries and the timestamp.
C20_FieldMerge ==
    lastFrame.client # "none" =>
        /\ OtherRecords(CacheAfter) = OtherRecords(CacheBefore)
        /\ Len(CacheAfter) <= Len(OtherRecords(CacheAfter)) + 1
        /\ \A field \in QuoteFields :
              \/ NamedRecord(CacheAfter)[field] = NamedRecord(CacheBefore)[field]
              \/ /\ Carried(field).some
                 /\ NamedRecord(CacheAfter)[field] = Carried(field)
        /\ (FrameKey # "" /\ ~lastFrame.raised) =>
              /\ NamedRecord(CacheAfter).timestamp = Some(lastFrame.now)
              /\ \A field \in QuoteFields :
                    Carried(field).some => NamedRecord(CacheAfter)[field] = Carried(field)

\* A funding frame reached a record that had a bid and an ask: they survived
\* and the funding rate was set.
C20_Witness ==
    /\ lastFrame.handler = "funding" /\ Carried("funding_rate").some
    /\ NamedRecord(CacheBefore).bid.some /\ NamedRecord(CacheBefore).ask.some
    /\ ~NamedRecord(CacheBefore).funding_rate.some
    /\ NamedRecord(CacheAfter).bid = NamedRecord(CacheBefore).bid
    /\ NamedRecord(CacheAfter).funding_rate = Carried("funding_rate")

\* ------------------------------------------- claims on closing a position
RECURSIVE SumPortions(_)
SumPortions(details) ==
    IF details = <<>> THEN Zero
    ELSE Add(Head(details).portion_usd, SumPortions(Tail(details)))

\* C26: record_exit(usd, exit_row) with usd > 0 on a position that holds
\* tranches closes exactly min(usd, notional_usd): the amount returned is that
\* minimum, it is the sum of portion_usd over the details, and notional_usd goes
\* down by exactly that amount; with usd <= 0 or nothing held it returns
\* (0, 0, []) and leaves the position as it was.
C26_ExitCloses ==
    last.op = "exit" =>
        IF Lt(Zero, last.usd) /\ last.before # <<>> /\ Lt(Zero, last.beforeNotional)
        THEN /\ last.ret = MinUsd(last.usd, last.beforeNotional)
             /\ last.ret = SumPortions(last.details)
             /\ pos.notional_usd = Sub(last.beforeNotional, last.ret)
        ELSE /\ last.ret = Zero /\ last.pnl = <<>> /\ last.details = <<>>
             /\ pos.tranches = last.before
             /\ pos.notional_usd = last.beforeNotional

\* The sum of the profits of the details, computed from the entry prices of the
\* tranches the call found, in the order it found them.
RECURSIVE PnlOfDetails(_, _, _)
PnlOfDetails(details, before, row) ==
    IF details = <<>> THEN <<>>
    ELSE LET n == Len(details)
             rest == PnlOfDetails(SubSeq(details, 1, n - 1), before, row)
             move == (before[n].futures_price - row.futures_price)
                     + (row.spot_price - before[n].spot_price)
             den == before[n].futures_price
             num == Usd(details[n].portion_usd.d * move, details[n].portion_usd.e * move)
         IN  [d \in DOMAIN rest \cup {den} |->
                 IF d = den
                 THEN IF d \in DOMAIN rest THEN Add(rest[d], num) ELSE num
                 ELSE rest[d]]

\* C27: the profit record_exit returns is the sum over the portions it consumed
\* of qty * ((entry futures - exit futures) + (exit spot - entry spot)), with
\* qty = portion_usd / entry futures price, the entry prices being those of the
\* tranche the portion was taken from and the exit prices those of the exit
\* row; it is the sum of pnl_usd over the details.
C27_RealizedPnl ==
    last.op = "exit" =>
        /\ Len(last.details) <= Len(last.before)
        /\ \A i \in 1..Len(last.details) :
              LET d == last.details[i]
                  t == last.before[i]
                  move == (t.futures_price - last.row.futures_price)
                          + (last.row.spot_price - t.spot_price)
              IN  /\ d.qty = [num |-> d.portion_usd, den |-> t.futures_price]
                  /\ d.exit_futures_price = last.row.futures_price
                  /\ d.exit_spot_price = last.row.spot_price
                  /\ d.pnl_usd = [num |-> Usd(d.portion_usd.d * move, d.portion_usd.e * move),
                                  den |-> t.futures_price]
        /\ last.pnl = PnlOfDetails(last.details, last.before, last.row)

\* An exit that consumed two tranches entered at different prices.
C27_Witness ==
    /\ last.op = "exit"
    /\ Len(last.details) >= 2
    /\ last.before[1].futures_price # last.before[2].futures_price
    /\ last.details[1].pnl_usd.num # Zero
    /\ last.details[2].pnl_usd.num # Zero
    /\ DOMAIN last.pnl = {last.before[1].futures_price, last.before[2].futures_price}

\* ------------------------------------------- claims on the order of an entry
LastTranche(ps, key) == TranchesOf(ps, key)[Len(TranchesOf(ps, key))]

C28_Step ==
    (args.prog = "auto_trader" /\ pc = "entry") =>
        LET called == execs' # execs
            e == execs'[Len(execs')]
            before == NotionalOf(positions, e.key)
            after == NotionalOf(positions', e.key)
            attempted == MinUsd(Usd(TRANCHE_USD, 0),
                                MaxUsd(Zero, Sub(Usd(MAX_PER_LEG_USD, 0), before)))
            event == log'[Len(log')]
        IN  /\ ~called =>
                  /\ TotalTranches(positions') = TotalTranches(positions)
                  /\ log' = log /\ orders' = orders
            /\ (Eligible # {} /\ ~called) =>
                  \E i \in Eligible :
                      Leq(Usd(MAX_PER_LEG_USD, 0), NotionalOf(positions, KeyOf(rows[i])))
            /\ called =>
                  /\ execs' = Append(execs, e) /\ IsOpenCall(e)
                  /\ Lt(Zero, attempted) /\ e.usd_amount = attempted
                  /\ e.raised =>
                        /\ TranchesOf(positions', e.key) = TranchesOf(positions, e.key)
                        /\ after = before
                        /\ log' = log
                        /\ pc' = "crashed"
                  /\ ~e.raised =>
                        /\ TranchesOf(positions', e.key)
                              = Append(TranchesOf(positions, e.key),
                                       [usd |-> attempted,
                                        futures_price |-> LastTranche(positions', e.key).futures_price,
                                        spot_price |-> LastTranche(positions', e.key).spot_price,
                                        timestamp |-> clock])
                        /\ after = Add(before, attempted)
                        /\ env.log_writable => log' # log
                  /\ log' # log =>
                        /\ ~e.raised
                        /\ log' = Append(log, event) /\ IsEntryEvent(event)
                        /\ event.usd = Sub(after, before)
                        /\ event.usd = LastTranche(positions', e.key).usd
                        /\ event.execution = e.result

SpotVenueOf(r) ==
    IF "spot_exchange" \in DOMAIN r THEN r.spot_exchange
    ELSE CHOOSE id \in {ev.spot_maps[k].id : k \in 1..Len(ev.spot_maps)} :
            \E k \in 1..Len(ev.spot_maps) :
                ev.spot_maps[k].id = id /\ ev.spot_maps[k].label = r.spot_label
FuturesVenueOf(r) ==
    IF "exchange" \in DOMAIN r THEN r.exchange
    ELSE CHOOSE id \in DOMAIN FUTURES_LABELS : FUTURES_LABELS[id] = r.futures

\* C29: for every emitted row net_pct = pct - total_fee_pct, with
\* total_fee_pct = (2 * spot fee + 2 * futures fee) * 100 of the row's own spot
\* and futures venue (0 for a venue without a configured fee), and the two
\* after-cost columns are net_pct - 0.2 and net_pct - 0.4.
C29_FeeNetting ==
    \A i \in 1..Len(evOut.rows) :
        LET r == evOut.rows[i]
            spot_fee == IF SpotVenueOf(r) \in DOMAIN SPOT_FEES
                        THEN SPOT_FEES[SpotVenueOf(r)] ELSE 0
            futures_fee == IF FuturesVenueOf(r) \in DOMAIN FUTURES_FEES
                           THEN FUTURES_FEES[FuturesVenueOf(r)] ELSE 0
        IN  /\ r.net_pct = r.pct - (2 * spot_fee + 2 * futures_fee)
            /\ "net_pct_minus_0_2" \in DOMAIN r /\ r.net_pct_minus_0_2 = r.net_pct - 200
            /\ "net_pct_minus_0_4" \in DOMAIN r /\ r.net_pct_minus_0_4 = r.net_pct - 400

\* ------------------------------------------------- spot stream client
\* UpbitWebSocketClient of upbit_ws_spot.py.  (BithumbWebSocketClient is the
\* same text; its handler also drops frames whose type is not "orderbook" and
\* reads the market from "code".)
CHUNK_SIZE == 50
MaxEvents == 4

\* Frames a connection can deliver.  text: what json.loads makes of the text
\* (it raises, gives a list, gives an object); market, units and ask are the
\* object's "market", "orderbook_units" and the first unit's "ask_price".
SpotFrames ==
    LET Frame(text, market, units, ask) ==
            [text |-> text, market |-> market, units |-> units, ask |-> ask]
    IN  {Frame("invalid", None, "absent", Raw("none", 0)),
         Frame("array", None, "absent", Raw("none", 0)),
         Frame("object", None, "absent", Raw("none", 0)),
         Frame("object", Some("KRW-BTC"), "dicts", Raw("none", 0)),
         Frame("object", Some("KRW-BTC"), "numbers", Raw("none", 0)),
         Frame("object", Some("KRWBTC"), "dicts", Raw("num", 3000)),
         Frame("object", Some("KRW-BTC"), "dicts", Raw("num", 3000)),
         Frame("object", Some("KRW-USDT"), "dicts", Raw("num", 1000)),
         Frame("object", Some("KRW-USDT"), "dicts", Raw("num", 1500))}

\* The objects a dict of the client refers to, in the order of its keys.
Deref(heap, dict) == [i \in 1..Len(dict) |-> [base |-> dict[i].base, data |-> heap[dict[i].ref]]]

\* _update_cache (lines 102-111) on the client c: the dict entries are objects
\* of c.heap, the entry of a base is created once and then updated in place.
upbit_update_cache(c, market, ask_price, now) ==
    LET rate == IF market = "KRW-USDT" THEN Some(ask_price) ELSE c.usdt_krw
        parts == CASE market = "KRW-BTC" -> <<"KRW", "BTC">>
                   [] market = "KRW-USDT" -> <<"KRW", "USDT">>
                   [] OTHER -> <<market>>
        known == \E i \in 1..Len(c.cache) : c.cache[i].base = parts[2]
        at == IF known
              THEN c.cache[CHOOSE i \in 1..Len(c.cache) : c.cache[i].base = parts[2]].ref
              ELSE Len(c.heap) + 1
        old == IF known THEN c.heap[at] ELSE [usd |-> None]
        entry == [krw |-> ask_price, timestamp |-> now,
                  usd |-> IF rate.some /\ rate.v # 0
                          THEN Some([num |-> ask_price, den |-> rate.v])
                          ELSE old.usd]
    IN  IF Len(parts) < 2
        THEN [raised |-> TRUE, client |-> c]
        ELSE [raised |-> FALSE,
              client |-> [c EXCEPT
                            !.usdt_krw = rate,
                            !.cache = IF known THEN @ ELSE Append(@, [base |-> parts[2], ref |-> at]),
                            !.heap = IF known THEN [@ EXCEPT ![at] = entry]
                                     ELSE Append(@, entry)]]

\* _handle_message (lines 86-100): what the frame does to the client, and
\* whether an exception leaves the handler.
upbit_handle_message(c, message, now) ==
    IF message.text = "invalid" THEN [raised |-> FALSE, client |-> c]
    ELSE IF message.text # "object" THEN [raised |-> TRUE, client |-> c]
    ELSE IF ~Truthy(message.market) \/ message.units \in {"absent", "empty"}
    THEN [raised |-> FALSE, client |-> c]
    ELSE IF message.units # "dicts" THEN [raised |-> TRUE, client |-> c]
    ELSE IF ~safe_float(message.ask).some THEN [raised |-> FALSE, client |-> c]
    ELSE upbit_update_cache(c, message.market.v, safe_float(message.ask).v, now)

\* Variant: the snapshot is a new dict of the same entry objects.
upbit_snapshot_Shallow(c) == [c EXCEPT !.snap = Some(c.cache)]

\* snapshot (lines 113-115): a new dict, each entry a copy of the cache's.
upbit_snapshot(c) ==
    [c EXCEPT !.snap = Some([i \in 1..Len(c.cache) |->
                                [base |-> c.cache[i].base, ref |-> Len(c.heap) + i]]),
              !.heap = @ \o [i \in 1..Len(c.cache) |-> c.heap[c.cache[i].ref]]]

\* UpbitWebSocketClient(codes): the number of codes decides the chunks.
InitSpot ==
    /\ IdleBook /\ IdleTrader /\ IdleEval /\ IdleMonitor
    /\ cache = <<>> /\ engine = <<>> /\ ws = <<>>
    /\ pc = "spot" /\ lastFrame = [op |-> "none", frame |-> <<>>, raised |-> FALSE]
    /\ \E codes \in {1, CHUNK_SIZE + 1} :
          upbit = [codes |-> codes, at |-> "dial", sent |-> 0, cache |-> <<>>, heap |-> <<>>,
                   usdt_krw |-> None, snap |-> None]

\* _subscribe (lines 75-84): one chunk is sent, or the send raises.
upbit_subscribe ==
    /\ pc = "spot" /\ upbit.at = "subscribe"
    /\ \/ upbit' = [upbit EXCEPT
                      !.sent = @ + 1,
                      !.at = IF (upbit.sent + 1) * CHUNK_SIZE >= upbit.codes
                             THEN "read" ELSE "subscribe"]
       \/ upbit' = [upbit EXCEPT !.at = "sleep"]
    /\ UNCHANGED <<bookVars, traderVars, evalVars, monitorVars, clock, cache, lastFrame, engine, ws>>

\* Variant: after a failure run() returns instead of dialling again.
upbit_run_GiveUp ==
    /\ pc = "spot"
    /\ \/ /\ upbit.at = "dial"
          /\ \/ upbit' = [upbit EXCEPT !.at = IF upbit.codes > 0 THEN "subscribe" ELSE "read",
                                       !.sent = 0]
             \/ upbit' = [upbit EXCEPT !.at = "sleep"]
          /\ UNCHANGED <<clock, lastFrame>>
       \/ /\ upbit.at = "read" /\ clock < MaxEvents
          /\ \E message \in SpotFrames :
                LET out == upbit_handle_message(upbit, message, clock + 1)
                IN  /\ upbit' = [out.client EXCEPT !.at = IF out.raised THEN "sleep" ELSE "read"]
                    /\ lastFrame' = [op |-> "frame", frame |-> message, raised |-> out.raised]
          /\ clock' = clock + 1
       \/ /\ upbit.at = "read"
          /\ upbit' = [upbit EXCEPT !.at = "sleep"]
          /\ UNCHANGED <<clock, lastFrame>>
       \/ /\ upbit.at = "read"
          /\ upbit' = [upbit EXCEPT !.at = "dial"]
          /\ UNCHANGED <<clock, lastFrame>>
       \/ /\ upbit.at = "sleep"
          /\ upbit' = [upbit EXCEPT !.at = "returned"]
          /\ UNCHANGED <<clock, lastFrame>>
    /\ UNCHANGED <<bookVars, traderVars, evalVars, monitorVars, cache, engine, ws>>

\* Variant: a new connection starts from an empty cache.
upbit_run_ClearOnDial ==
    /\ pc = "spot"
    /\ \/ /\ upbit.at = "dial"
          /\ \/ upbit' = [upbit EXCEPT !.at = IF upbit.codes > 0 THEN "subscribe" ELSE "read",
                                       !.sent = 0, !.cache = <<>>, !.usdt_krw = None]
             \/ upbit' = [upbit EXCEPT !.at = "sleep"]
          /\ UNCHANGED <<clock, lastFrame>>
       \/ /\ upbit.at = "read" /\ clock < MaxEvents
          /\ \E message \in SpotFrames :
                LET out == upbit_handle_message(upbit, message, clock + 1)
                IN  /\ upbit' = [out.client EXCEPT !.at = IF out.raised THEN "sleep" ELSE "read"]
                    /\ lastFrame' = [op |-> "frame", frame |-> message, raised |-> out.raised]
          /\ clock' = clock + 1
       \/ /\ upbit.at = "read"
          /\ upbit' = [upbit EXCEPT !.at = "sleep"]
          /\ UNCHANGED <<clock, lastFrame>>
       \/ /\ upbit.at = "read"
          /\ upbit' = [upbit EXCEPT !.at = "dial"]
          /\ UNCHANGED <<clock, lastFrame>>
       \/ /\ upbit.at = "sleep"
          /\ upbit' = [upbit EXCEPT !.at = "dial"]
          /\ UNCHANGED <<clock, lastFrame>>
    /\ UNCHANGED <<bookVars, traderVars, evalVars, monitorVars, cache, engine, ws>>

\* run (lines 59-73): the connection is made or refused; a frame is handled;
\* the connection breaks; the server closes it and the iteration ends; the
\* sleep of the except branch is over.
upbit_run ==
    /\ pc = "spot"
    /\ \/ /\ upbit.at = "dial"
          /\ \/ upbit' = [upbit EXCEPT !.at = IF upbit.codes > 0 THEN "subscribe" ELSE "read",
                                       !.sent = 0]
             \/ upbit' = [upbit EXCEPT !.at = "sleep"]
          /\ UNCHANGED <<clock, lastFrame>>
       \/ /\ upbit.at = "read" /\ clock < MaxEvents
          /\ \E message \in SpotFrames :
                LET out == upbit_handle_message(upbit, message, clock + 1)
                IN  /\ upbit' = [out.client EXCEPT !.at = IF out.raised THEN "sleep" ELSE "read"]
                    /\ lastFrame' = [op |-> "frame", frame |-> message, raised |-> out.raised]
          /\ clock' = clock + 1
       \/ /\ upbit.at = "read"
          /\ upbit' = [upbit EXCEPT !.at = "sleep"]
          /\ UNCHANGED <<clock, lastFrame>>
       \/ /\ upbit.at = "read"
          /\ upbit' = [upbit EXCEPT !.at = "dial"]
          /\ UNCHANGED <<clock, lastFrame>>
       \/ /\ upbit.at = "sleep"
          /\ upbit' = [upbit EXCEPT !.at = "dial"]
          /\ UNCHANGED <<clock, lastFrame>>
    /\ UNCHANGED <<bookVars, traderVars, evalVars, monitorVars, cache, engine, ws>>

\* A reader (contango_loop, lines 153-169, is one): it takes a snapshot, or
\* changes the first entry of the snapshot it holds.
SpotReader ==
    /\ pc = "spot" /\ clock < MaxEvents
    /\ \/ /\ upbit' = upbit_snapshot(upbit)
          /\ lastFrame' = [op |-> "snapshot", frame |-> <<>>, raised |-> FALSE]
       \/ /\ upbit.snap.some /\ upbit.snap.v # <<>>
          /\ upbit' = [upbit EXCEPT !.heap[upbit.snap.v[1].ref].krw = 0]
          /\ lastFrame' = [op |-> "change", frame |-> <<>>, raised |-> FALSE]
    /\ clock' = clock + 1
    /\ UNCHANGED <<bookVars, traderVars, evalVars, monitorVars, cache, engine, ws>>

NextSpot == upbit_subscribe \/ upbit_run \/ SpotReader

\* The event loop resumes a run() whose sleep is over.
SpecSpot == InitSpot /\ [][NextSpot]_vars /\ WF_vars(upbit_run /\ upbit.at = "sleep")

\* ------------------------------------------- claims on the spot stream client
\* An event of the client or its reader happened in this step.
SpotEvent(op) == pc = "spot" /\ clock' # clock /\ lastFrame'.op = op

\* C30: in every snapshot of a spot stream client, each entry that has a usd
\* value has usd = krw / r, krw being the entry's latest ask and r the client's
\* current USDT/KRW rate, the latest KRW-USDT ask received.
C30_UsdProjection ==
    (pc = "spot" /\ lastFrame.op = "snapshot") =>
        \A i \in 1..Len(upbit.snap.v) :
            LET entry == upbit.heap[upbit.snap.v[i].ref]
            IN  entry.usd.some =>
                   /\ upbit.usdt_krw.some /\ upbit.usdt_krw.v # 0
                   /\ entry.usd.v.num * upbit.usdt_krw.v = entry.krw * entry.usd.v.den

C21_Step ==
    /\ SpotEvent("snapshot") =>
          /\ upbit'.snap.some
          /\ Deref(upbit'.heap, upbit'.snap.v) = Deref(upbit.heap, upbit.cache)
          /\ Deref(upbit'.heap, upbit'.cache) = Deref(upbit.heap, upbit.cache)
    /\ (pc = "spot" /\ upbit.snap.some /\ ~SpotEvent("snapshot") /\ ~SpotEvent("change")) =>
          /\ upbit'.snap = upbit.snap
          /\ Deref(upbit'.heap, upbit'.snap.v) = Deref(upbit.heap, upbit.snap.v)
    /\ SpotEvent("change") =>
          /\ Deref(upbit'.heap, upbit'.cache) = Deref(upbit.heap, upbit.cache)
          /\ upbit'.cache = upbit.cache /\ upbit'.usdt_krw = upbit.usdt_krw

\* C21: snapshot() returns an independent point-in-time copy: it equals the
\* cache as it is at that instant between two updates, updates of the cache
\* made afterwards do not change it, and changes made to it do not change the
\* cache.
C21_SnapshotIndependent == [][C21_Step]_vars

\* A frame has updated the entry of a base after the reader took its snapshot:
\* the cache and the snapshot now differ on that base.
C21_Witness ==
    /\ pc = "spot" /\ lastFrame.op = "frame" /\ ~lastFrame.raised
    /\ upbit.snap.some /\ upbit.snap.v # <<>>
    /\ upbit.cache[1].base = upbit.snap.v[1].base
    /\ upbit.heap[upbit.cache[1].ref] # upbit.heap[upbit.snap.v[1].ref]

C22_Step ==
    pc = "spot" =>
        /\ upbit'.at \in {"dial", "subscribe", "read", "sleep"}
        /\ SpotEvent("frame") =>
              upbit.at = "read" /\ upbit.sent * CHUNK_SIZE >= upbit.codes
        /\ (upbit'.at = "read" /\ upbit.at # "read") =>
              upbit.at = "subscribe" /\ upbit'.sent * CHUNK_SIZE >= upbit.codes
        /\ (upbit.at = "dial" /\ upbit'.at # "dial") =>
              \/ upbit'.at = "sleep"
              \/ upbit'.at = "subscribe" /\ upbit'.sent = 0

\* C22: after any connection failure the run loop of a stream client dials
\* again, whatever the number of attempts, and never returns; on every
\* successful dial it sends the subscriptions of all its instruments before it
\* handles any frame of that connection.
C22_Reconnect ==
    /\ (pc = "spot" /\ upbit.at = "sleep") ~> (upbit.at = "dial")
    /\ [][C22_Step]_vars

\* A connection failed on a frame, and the next connection has sent both
\* chunks and is reading.
C22_Witness ==
    /\ pc = "spot" /\ lastFrame.op = "frame" /\ lastFrame.raised
    /\ upbit.at = "read" /\ upbit.sent = 2 /\ upbit.codes > CHUNK_SIZE

\* Frames that cannot be parsed or are not recognised.
Unrecognised(message) ==
    \/ message.text # "object"
    \/ ~message.market.some \/ message.market.v \notin {"KRW-BTC", "KRW-USDT"}
    \/ message.units # "dicts"
    \/ message.ask.kind \notin {"num", "str"}

C23_Step ==
    (SpotEvent("frame") /\ Unrecognised(lastFrame'.frame)) =>
        /\ Deref(upbit'.heap, upbit'.cache) = Deref(upbit.heap, upbit.cache)
        /\ upbit'.usdt_krw = upbit.usdt_krw
        /\ ~lastFrame'.raised
        /\ upbit'.at = "read"

\* C23: a frame that cannot be parsed or is not recognised (invalid JSON, JSON
\* that is not an object, missing or malformed fields) is dropped: the cache is
\* unchanged, the connection stays open and no reconnect follows.
C23_BadFrameDropped == [][C23_Step]_vars

\* ------------------------------------------------- unified stream engine
\* main() of ws_contango_engine.py.  Init: the command line is parsed (--once,
\* --no-upbit, --no-bithumb, --futures); nothing is loaded yet.
InitEngine ==
    /\ IdleBook /\ IdleTrader /\ IdleEval /\ IdleMonitor
    /\ cache = <<>> /\ lastFrame = <<>> /\ upbit = <<>> /\ ws = <<>>
    /\ pc = "engine"
    /\ \E once \in BOOLEAN,
          selected \in {{"upbit", "bithumb", "gate", "hyper"}, {"okx"}} :
          engine = [at |-> "load", k |-> 1, once |-> once, selected |-> selected,
                    loaded |-> <<>>, failed |-> {}, tasks |-> <<>>, evaluated |-> {},
                    exit |-> "none"]

\* Variant: when the read loop of Hyperliquid ends, run() goes on without
\* cancelling and awaiting the ping task.
stream_run_NoReap ==
    /\ pc = "engine" /\ engine.at \in {"loop_sleep", "loop_eval", "await"}
    /\ \E i \in 1..Len(engine.tasks) :
          LET t == engine.tasks[i]
              hyper == t.venue = "hyper"
              Goes(at) == engine' = [engine EXCEPT !.tasks[i].at = at]
          IN  /\ t.at # "cancelled"
              /\ IF t.cancel
                 THEN engine' = [engine EXCEPT !.tasks[i].at = "cancelled",
                                               !.tasks[i].hit = t.at]
                 ELSE \/ t.at = "dial" /\ (Goes("subscribe") \/ Goes("sleep"))
                      \/ /\ t.at = "subscribe"
                         /\ \/ engine' = [engine EXCEPT
                                            !.tasks[i].at = "read",
                                            !.tasks[i].ping = IF hyper THEN @ + 1 ELSE @,
                                            !.tasks[i].pinged = FALSE]
                            \/ Goes("sleep")
                      \/ t.at = "read" /\ Goes("sleep")
                      \/ /\ t.at = "read" /\ hyper /\ t.ping > 0
                         /\ \/ engine' = [engine EXCEPT !.tasks[i].pinged = TRUE]
                            \/ engine' = [engine EXCEPT !.tasks[i].ping = @ - 1]
                      \/ t.at = "read" /\ t.venue \in {"upbit", "bithumb"} /\ Goes("dial")
                      \/ t.at = "sleep" /\ Goes("dial")
    /\ UNCHANGED <<bookVars, traderVars, evalVars, monitorVars, clock, cache, lastFrame, upbit, ws>>

\* run() of a stream client as a task of the engine (upbit_ws_spot.py lines
\* 59-73, hyperliquid_ws_monitor.py lines 139-163): it dials, subscribes,
\* reads, and after a failure sleeps and dials again.  Tasks run while main is
\* at an await.  A cancelled task gets CancelledError at the await it is in;
\* `except Exception` does not catch it and run() ends.
\* Hyperliquid creates its ping task after the subscriptions (ping counts the
\* ping tasks that have not ended).  _ping_loop (lines 157-163) sends a ping
\* after each sleep of 30 s and ends when the send raises.  When the read loop
\* ends, by an error (why = "error") or by a cancellation (why = "cancelled"),
\* the finally cancels the ping task and awaits it under
\* suppress(CancelledError) (at = "reap"): the ping task ends at its await,
\* then run() resumes and goes where the exception of the read loop takes it.
\* A cancellation of run() that arrives during that await is raised at the
\* await and suppressed with it.
stream_run ==
    /\ pc = "engine" /\ engine.at \in {"loop_sleep", "loop_eval", "await"}
    /\ \E i \in 1..Len(engine.tasks) :
          LET t == engine.tasks[i]
              hyper == t.venue = "hyper"
              Goes(at) == engine' = [engine EXCEPT !.tasks[i].at = at]
          IN  /\ t.at # "cancelled"
              /\ IF t.cancel /\ t.at # "reap"
                 THEN IF hyper /\ t.at = "read"
                      THEN engine' = [engine EXCEPT !.tasks[i].at = "reap",
                                                    !.tasks[i].why = "cancelled",
                                                    !.tasks[i].cancel = FALSE,
                                                    !.tasks[i].hit = t.at]
                      ELSE engine' = [engine EXCEPT !.tasks[i].at = "cancelled",
                                                    !.tasks[i].hit = t.at]
                 ELSE \/ t.at = "dial" /\ (Goes("subscribe") \/ Goes("sleep"))
                      \/ /\ t.at = "subscribe"
                         /\ \/ engine' = [engine EXCEPT
                                            !.tasks[i].at = "read",
                                            !.tasks[i].ping = IF hyper THEN @ + 1 ELSE @,
                                            !.tasks[i].pinged = FALSE]
                            \/ Goes("sleep")
                      \/ t.at = "read" /\ ~hyper /\ Goes("sleep")
                      \/ /\ t.at = "read" /\ hyper
                         /\ engine' = [engine EXCEPT !.tasks[i].at = "reap",
                                                     !.tasks[i].why = "error"]
                      \/ /\ t.at = "read" /\ hyper /\ t.ping > 0
                         /\ \/ engine' = [engine EXCEPT !.tasks[i].pinged = TRUE]
                            \/ engine' = [engine EXCEPT !.tasks[i].ping = @ - 1]
                      \/ t.at = "read" /\ t.venue \in {"upbit", "bithumb"} /\ Goes("dial")
                      \/ t.at = "sleep" /\ Goes("dial")
                      \/ /\ t.at = "reap" /\ t.ping > 0
                         /\ engine' = [engine EXCEPT !.tasks[i].ping = @ - 1]
                      \/ /\ t.at = "reap" /\ t.ping = 0
                         /\ engine' = [engine EXCEPT
                                         !.tasks[i].at = IF t.why = "cancelled" THEN "cancelled"
                                                         ELSE "sleep",
                                         !.tasks[i].cancel = FALSE]
    /\ UNCHANGED <<bookVars, traderVars, evalVars, monitorVars, clock, cache, lastFrame, upbit, ws>>

\* contango_loop (lines 142-181): the sleep is over; one evaluation reads the
\* snapshot of every client, then breaks (--once) or sleeps; an exception or
\* an interrupt ends the loop.
contango_loop ==
    /\ pc = "engine"
    /\ \/ /\ engine.at = "loop_sleep"
          /\ engine' = [engine EXCEPT !.at = "loop_eval"]
       \/ /\ engine.at = "loop_eval"
          /\ engine' = [engine EXCEPT
                          !.evaluated = {engine.tasks[i].venue : i \in 1..Len(engine.tasks)},
                          !.at = IF engine.once THEN "finally" ELSE "loop_sleep",
                          !.exit = IF engine.once THEN "once" ELSE @]
       \/ /\ engine.at \in {"loop_sleep", "loop_eval"}
          /\ \E why \in {"exception", "interrupt"} :
                engine' = [engine EXCEPT !.at = "finally", !.exit = why]
    /\ UNCHANGED <<bookVars, traderVars, evalVars, monitorVars, clock, cache, lastFrame, upbit, ws>>

\* main (lines 184-269): the catalogs of the selected venues are loaded in
\* order, a failed load raising out of main; a task is created per client; the
\* loop runs; the finally cancels every task and awaits them in order.
engine_main ==
    /\ pc = "engine"
    /\ LET venues == <<"upbit", "bithumb", "okx", "gate", "hyper">>
       IN  \/ /\ engine.at = "load" /\ engine.k <= Len(venues)
              /\ IF venues[engine.k] \notin engine.selected
                 THEN engine' = [engine EXCEPT !.k = @ + 1]
                 ELSE \/ engine' = [engine EXCEPT !.k = @ + 1,
                                                  !.loaded = Append(@, venues[engine.k])]
                      \/ engine' = [engine EXCEPT !.at = "crashed",
                                                  !.failed = {venues[engine.k]}]
           \/ /\ engine.at = "load" /\ engine.k > Len(venues)
              /\ engine' = [engine EXCEPT
                              !.at = "loop_sleep",
                              !.tasks = [i \in 1..Len(engine.loaded) |->
                                            [venue |-> engine.loaded[i], at |-> "dial",
                                             ping |-> 0, pinged |-> FALSE, cancel |-> FALSE,
                                             hit |-> "none", why |-> "none"]]]
           \/ /\ engine.at = "finally"
              /\ engine' = [engine EXCEPT
                              !.at = "await", !.k = 1,
                              !.tasks = [i \in 1..Len(engine.tasks) |->
                                            [engine.tasks[i] EXCEPT !.cancel = TRUE]]]
           \/ /\ engine.at = "await" /\ engine.k <= Len(engine.tasks)
              /\ engine.tasks[engine.k].at = "cancelled"
              /\ engine' = [engine EXCEPT !.k = @ + 1]
           \/ /\ engine.at = "await" /\ engine.k > Len(engine.tasks)
              /\ engine' = [engine EXCEPT !.at = "done"]
    /\ UNCHANGED <<bookVars, traderVars, evalVars, monitorVars, clock, cache, lastFrame, upbit, ws>>

NextEngine == engine_main \/ contango_loop \/ stream_run

\* The event loop runs main and every task that can go on.
SpecEngine ==
    InitEngine /\ [][NextEngine]_vars /\ WF_vars(engine_main) /\ WF_vars(stream_run)

\* ------------------------------------------- claims on the unified engine
\* C24: when the driver loop of the engine exits (--once, an exception, an
\* interrupt), every stream task that was started is cancelled and awaited and
\* each of them ends, in whatever state it is (dialling, subscribing, reading,
\* sleeping before a retry); the reconnect loop does not swallow the
\* cancellation.
C24_Cancellation ==
    /\ [][(pc = "engine" /\ engine.at = "finally") =>
             \A i \in 1..Len(engine.tasks) : engine'.tasks[i].cancel]_vars
    /\ []((pc = "engine" /\ engine.at = "done") =>
             \A i \in 1..Len(engine.tasks) :
                 /\ engine.tasks[i].at = "cancelled" /\ engine.tasks[i].ping = 0
                 /\ engine.tasks[i].hit \in {"dial", "subscribe", "read", "sleep"})
    /\ (pc = "engine" /\ engine.at = "finally") ~> (engine.at = "done")

\* After an interrupt the four tasks have ended, one from each of the four
\* states, the Hyperliquid task while its ping task was running.
C24_Witness ==
    /\ pc = "engine" /\ engine.at = "done" /\ engine.exit = "interrupt"
    /\ Len(engine.tasks) = 4
    /\ {engine.tasks[i].hit : i \in 1..4} = {"dial", "subscribe", "read", "sleep"}
    /\ engine.tasks[4].venue = "hyper" /\ engine.tasks[4].hit = "read"

\* C25: if the catalog load of one venue fails at startup, that venue is left
\* out of the run, the clients of the other venues are still started and
\* evaluated, and the process does not crash.
C25_CatalogFailure ==
    (pc = "engine" /\ engine.failed # {}) =>
        /\ engine.at # "crashed"
        /\ engine.at \notin {"load"} =>
              {engine.tasks[i].venue : i \in 1..Len(engine.tasks)}
                  = engine.selected \ engine.failed

\* ------------------------------------------- claims on the order of writes
\* The record of a key in a cache, empty when the key is not there.
RecordOf(records, key) ==
    IF \E i \in 1..Len(records) : records[i].key = key
    THEN records[CHOOSE i \in 1..Len(records) : records[i].key = key]
    ELSE EmptyRecord(key)

C31_Step ==
    (pc = "stream" /\ clock' # clock) =>
        LET client == lastFrame'.client
            keys == {cache[client][i].key : i \in 1..Len(cache[client])}
                    \cup {cache'[client][i].key : i \in 1..Len(cache'[client])}
        IN  /\ \A other \in DOMAIN cache : other # client => cache'[other] = cache[other]
            /\ lastFrame'.before = cache[client]
            /\ \A key \in keys \ {""}, field \in QuoteFields :
                  RecordOf(cache'[client], key)[field] =
                      IF key = FrameKey' /\ Carried(field)'.some
                      THEN Carried(field)'
                      ELSE RecordOf(cache[client], key)[field]

\* C31: per venue the cache writes happen one frame at a time in arrival
\* order: after every frame each field of each instrument holds the value of
\* that frame if it carried a parseable one for it, whichever channel it came
\* on, and otherwise the value it held before, so that it always is the value
\* of the most recent frame that carried one.
C31_ArrivalOrder == [][C31_Step]_vars

\* A book frame has replaced the ask a ticker frame had written for the same
\* instrument; the mark of the ticker frame is still there.
C31_Witness ==
    /\ pc = "stream" /\ lastFrame.client = "okx" /\ lastFrame.handler = "book"
    /\ RecordOf(lastFrame.before, FrameKey).ask.some
    /\ RecordOf(lastFrame.before, FrameKey).mark.some
    /\ Carried("ask").some
    /\ Carried("ask") # RecordOf(lastFrame.before, FrameKey).ask
    /\ RecordOf(cache.okx, FrameKey).ask = Carried("ask")
    /\ RecordOf(cache.okx, FrameKey).mark = RecordOf(lastFrame.before, FrameKey).mark

\* ------------------------------------------- claims on the life of records
C32_Step ==
    pc = "spot" =>
        /\ \A i \in 1..Len(upbit.cache) :
              /\ i <= Len(upbit'.cache)
              /\ upbit'.cache[i].base = upbit.cache[i].base
              /\ \/ upbit'.heap[upbit'.cache[i].ref] = upbit.heap[upbit.cache[i].ref]
                 \/ /\ SpotEvent("frame") /\ ~lastFrame'.raised
                    /\ lastFrame'.frame.market.v = "KRW-" \o upbit.cache[i].base
                    /\ upbit'.heap[upbit'.cache[i].ref].krw = lastFrame'.frame.ask.v
        /\ ~SpotEvent("frame") =>
              Deref(upbit'.heap, upbit'.cache) = Deref(upbit.heap, upbit.cache)

\* C32: quote records are never deleted: a key that is in the cache of a
\* stream client is in it in every later state, with the values of its last
\* frame, through further frames, connection failures and reconnects.
C32_NeverDeleted == [][C32_Step]_vars

\* The connection failed on a frame after the cache had got an entry; the
\* client has dialled and subscribed again and the entry is there, as old as
\* it was.
C32_Witness ==
    /\ pc = "spot" /\ lastFrame.op = "frame" /\ lastFrame.raised
    /\ upbit.at = "read" /\ upbit.cache # <<>>
    /\ upbit.heap[upbit.cache[1].ref].timestamp < clock

\* C33: every dial that follows the end of a previous connection (an error, a
\* refused dial, a close by the peer) comes after the 3-second sleep of the
\* except branch.
C33_BackOff ==
    [][(pc = "spot" /\ upbit.at # "dial" /\ upbit'.at = "dial") => upbit.at = "sleep"]_vars

\* ------------------------------------------- subscriptions of a connection
\* SUB_CHUNK of gate_ws_monitor.py, okx_ws_monitor.py and
\* hyperliquid_ws_monitor.py; the spot clients use CHUNK_SIZE.
GATE_SUB_CHUNK == 30
OKX_SUB_CHUNK == 20
HL_SUB_CHUNK == 40

\* Variant of chunked: the slices overlap by one element.
chunked_Overlap(seq, size) ==
    [k \in 1..((Len(seq) + size - 1) \div size) |->
        SubSeq(seq, IF k = 1 THEN 1 ELSE (k - 1) * size,
               IF k * size < Len(seq) THEN k * size ELSE Len(seq))]

\* chunked (gate_ws_monitor.py lines 47-49): seq[i : i + size] for
\* i = 0, size, 2 * size, ... below len(seq).
chunked(seq, size) ==
    [k \in 1..((Len(seq) + size - 1) \div size) |->
        SubSeq(seq, (k - 1) * size + 1,
               IF k * size < Len(seq) THEN k * size ELSE Len(seq))]

RECURSIVE Concat(_)
Concat(seqs) == IF seqs = <<>> THEN <<>> ELSE Head(seqs) \o Concat(Tail(seqs))

WsSend(frame) == [op |-> "send", frame |-> frame]
WsSleep(ms) == [op |-> "sleep", ms |-> ms]

\* _subscribe of the spot clients (upbit_ws_spot.py lines 75-84): per slice of
\* codes one frame, then a sleep of 0.2 s.  The ticket is a fresh uuid.
spot_subscribe(codes) ==
    LET chunks == chunked(codes, CHUNK_SIZE)
    IN  Concat([k \in DOMAIN chunks |->
            <<WsSend([type |-> "orderbook", codes |-> chunks[k]]), WsSleep(200)>>])

\* GateWebSocketClient._subscribe (lines 158-175).
gate_subscribe(contracts) ==
    LET channels == <<"futures.tickers", "futures.order_book", "futures.funding_rate">>
        chunks == chunked(contracts, GATE_SUB_CHUNK)
        payload(channel, chunk) ==
            IF channel # "futures.order_book" THEN chunk
            ELSE [i \in DOMAIN chunk |-> <<chunk[i], "20", "0">>]
    IN  Concat([c \in DOMAIN channels |->
            Concat([k \in DOMAIN chunks |->
                <<WsSend([channel |-> channels[c], event |-> "subscribe",
                          payload |-> payload(channels[c], chunks[k])]),
                  WsSleep(200)>>])])

\* OkxWebSocketClient._subscribe (lines 158-167).
okx_subscribe(inst_ids) ==
    LET channels == <<"tickers", "books5", "funding-rate">>
        chunks == chunked(inst_ids, OKX_SUB_CHUNK)
    IN  Concat([c \in DOMAIN channels |->
            Concat([k \in DOMAIN chunks |->
                <<WsSend([op |-> "subscribe",
                          args |-> [i \in DOMAIN chunks[k] |->
                                      [channel |-> channels[c], instId |-> chunks[k][i]]]]),
                  WsSleep(200)>>])])

\* HyperliquidWebSocketClient._subscribe (lines 165-182): one frame per coin,
\* the sleep after the frames of a slice; first bbo, then activeAssetCtx.
hl_subscribe(coins) ==
    LET types == <<"bbo", "activeAssetCtx">>
        chunks == chunked(coins, HL_SUB_CHUNK)
    IN  Concat([t \in DOMAIN types |->
            Concat([k \in DOMAIN chunks |->
                [i \in DOMAIN chunks[k] |->
                    WsSend([method |-> "subscribe",
                            subscription |-> [type |-> types[t], coin |-> chunks[k][i]]])]
                \o <<WsSleep(200)>>])])

\* A client with no instrument, one, a full slice, one more than a slice, and
\* one more than two slices, on a fresh connection.
InitSubscribe ==
    /\ IdleBook /\ IdleTrader /\ IdleEval /\ IdleMonitor
    /\ cache = <<>> /\ lastFrame = <<>> /\ upbit = <<>> /\ engine = <<>>
    /\ pc = "subscribe"
    /\ \E venue \in {"upbit", "bithumb", "gate", "okx", "hyper"} :
          LET size == CASE venue \in {"upbit", "bithumb"} -> CHUNK_SIZE
                        [] venue = "gate" -> GATE_SUB_CHUNK
                        [] venue = "okx" -> OKX_SUB_CHUNK
                        [] venue = "hyper" -> HL_SUB_CHUNK
          IN  \E n \in {0, 1, size, size + 1, 2 * size + 1} :
                 ws = [venue |-> venue, instruments |-> [i \in 1..n |-> i],
                       at |-> "subscribe", out |-> <<>>]

\* One await of _subscribe: the send or the sleep completes, or the send
\* raises and run() leaves the connection; after the last one the read loop
\* starts.
ws_subscribe ==
    /\ pc = "subscribe" /\ ws.at = "subscribe"
    /\ LET plan == CASE ws.venue \in {"upbit", "bithumb"} -> spot_subscribe(ws.instruments)
                     [] ws.venue = "gate" -> gate_subscribe(ws.instruments)
                     [] ws.venue = "okx" -> okx_subscribe(ws.instruments)
                     [] ws.venue = "hyper" -> hl_subscribe(ws.instruments)
           next == Len(ws.out) + 1
       IN  \/ /\ next <= Len(plan)
              /\ ws' = [ws EXCEPT !.out = Append(@, plan[next])]
           \/ /\ next <= Len(plan) /\ plan[next].op = "send"
              /\ ws' = [ws EXCEPT !.at = "error"]
           \/ /\ next > Len(plan)
              /\ ws' = [ws EXCEPT !.at = "read"]
    /\ UNCHANGED <<bookVars, traderVars, evalVars, monitorVars, clock, cache, lastFrame,
                   upbit, engine>>

SpecSubscribe == InitSubscribe /\ [][ws_subscribe]_vars

\* The instruments a subscription frame names, and its channel.
FrameNames(frame) ==
    CASE "codes" \in DOMAIN frame -> frame.codes
      [] "payload" \in DOMAIN frame ->
            [i \in DOMAIN frame.payload |->
                IF frame.channel = "futures.order_book" THEN frame.payload[i][1]
                ELSE frame.payload[i]]
      [] "args" \in DOMAIN frame -> [i \in DOMAIN frame.args |-> frame.args[i].instId]
      [] "subscription" \in DOMAIN frame -> <<frame.subscription.coin>>

FrameChannels(frame) ==
    CASE "codes" \in DOMAIN frame -> {frame.type}
      [] "payload" \in DOMAIN frame -> {frame.channel}
      [] "args" \in DOMAIN frame -> {frame.args[i].channel : i \in DOMAIN frame.args}
      [] "subscription" \in DOMAIN frame -> {frame.subscription.type}

\* How many instruments the first i events named on a channel.
RECURSIVE NamedUpTo(_, _, _)
NamedUpTo(out, channel, i) ==
    IF i = 0 THEN 0
    ELSE NamedUpTo(out, channel, i - 1)
         + (IF out[i].op = "send" /\ FrameChannels(out[i].frame) = {channel}
            THEN Len(FrameNames(out[i].frame)) ELSE 0)

\* C34: on a connection each channel names every instrument of the client
\* once, in list order; the frames between two sleeps name the instruments of
\* one slice of at most the venue's chunk size (Upbit and Bithumb 50, Gate 30,
\* OKX 20, Hyperliquid 40); a sleep of 200 ms follows each slice before the
\* next frame; a client without instruments sends nothing.
C34_Chunking ==
    pc = "subscribe" =>
        LET out == ws.out
            list == ws.instruments
            n == Len(list)
            size == CASE ws.venue \in {"upbit", "bithumb"} -> 50
                      [] ws.venue = "gate" -> 30
                      [] ws.venue = "okx" -> 20
                      [] ws.venue = "hyper" -> 40
            channels ==
                CASE ws.venue \in {"upbit", "bithumb"} -> {"orderbook"}
                  [] ws.venue = "gate" ->
                        {"futures.tickers", "futures.order_book", "futures.funding_rate"}
                  [] ws.venue = "okx" -> {"tickers", "books5", "funding-rate"}
                  [] ws.venue = "hyper" -> {"bbo", "activeAssetCtx"}
        IN  /\ \A i \in DOMAIN out :
                 IF out[i].op = "send"
                 THEN LET names == FrameNames(out[i].frame)
                          chans == FrameChannels(out[i].frame)
                      IN  /\ Len(names) >= 1
                          /\ \E channel \in channels :
                                /\ chans = {channel}
                                /\ LET before == NamedUpTo(out, channel, i - 1)
                                       after == before + Len(names)
                                   IN  /\ after <= n
                                       /\ names = SubSeq(list, before + 1, after)
                                       /\ before \div size = (after - 1) \div size
                                       /\ i < Len(out) =>
                                             (out[i + 1].op = "sleep"
                                                <=> (after % size = 0 \/ after = n))
                 ELSE /\ out[i].op = "sleep" /\ out[i].ms = 200
                      /\ i > 1 /\ out[i - 1].op = "send"
            /\ ws.at = "read" =>
                  /\ \A channel \in channels : NamedUpTo(out, channel, Len(out)) = n
                  /\ out # <<>> => out[Len(out)].op = "sleep"
                  /\ n = 0 => out = <<>>

\* Hyperliquid finished the subscriptions of 81 coins; Gate those of 61
\* contracts; a client without instruments went on to read.
C34_Witness ==
    /\ pc = "subscribe" /\ ws.at = "read"
    /\ \/ ws.venue = "hyper" /\ Len(ws.instruments) = 2 * HL_SUB_CHUNK + 1
       \/ ws.venue = "gate" /\ Len(ws.instruments) = 2 * GATE_SUB_CHUNK + 1

\* ------------------------------------------------ control frames, keepalive
\* What a futures client reads from the socket: a text that is not JSON, JSON
\* that is no object, or an object with the keys the handlers look at ("none"
\* stands for a key that is absent).
RawFrames ==
    LET GateTick == [contract |-> Some("BTC_USDT"), best_bid |-> Raw("num", 100),
                     best_ask |-> Raw("num", 102), mark_price |-> Raw("num", 103)]
        OkxTick == [instId |-> Some("BTC-USDT-SWAP"), bidPx |-> Raw("num", 100),
                    askPx |-> Raw("num", 102), markPx |-> Raw("num", 103)]
        OkxBook == [instId |-> Some("BTC-USDT-SWAP"),
                    bids |-> <<Level("list", Raw("str", 99))>>, asks |-> <<>>]
        GateObject(event, channel, result) ==
            [kind |-> "object", event |-> event, channel |-> channel, result |-> result]
        OkxObject(event, op, channel, data) ==
            [kind |-> "object", text |-> "", event |-> event, op |-> op,
             arg |-> IF channel = "none" THEN None ELSE Some([channel |-> channel]),
             data |-> data]
        Text(text) == [kind |-> "text", text |-> text, event |-> "none", op |-> "none",
                       arg |-> None, data |-> <<>>]
    IN  [gate |->
            {[kind |-> k, event |-> "none", channel |-> "none", result |-> None] :
                k \in {"text", "list"}}
            \cup {GateObject(e, "none", None) : e \in {"ping", "pong", "subscribe"}}
            \cup {GateObject("ping", "futures.tickers", Some(GateTick)),
                  GateObject("update", "futures.tickers", Some(GateTick)),
                  GateObject("update", "futures.tickers", None),
                  GateObject("update", "futures.ping", Some(GateTick))},
         okx |->
            {Text(t) : t \in {"ping", "pong", "hello"}}
            \cup {[kind |-> "list", text |-> "", event |-> "none", op |-> "none",
                   arg |-> None, data |-> <<>>]}
            \cup {OkxObject(e, "none", "none", <<>>) : e \in {"subscribe", "error"}}
            \cup {OkxObject("none", op, "none", <<>>) : op \in {"ping", "pong"}}
            \cup {OkxObject("error", "ping", "none", <<>>),
                  OkxObject("none", "ping", "tickers", <<OkxTick>>),
                  OkxObject("none", "none", "tickers", <<OkxTick, OkxTick>>),
                  OkxObject("none", "none", "books5", <<OkxBook>>),
                  OkxObject("none", "none", "tickers", <<>>)}]

\* Variant: the event ping is read like subscribe and pong, without a reply.
gate_handle_message_Silent(records, raw, now, open) ==
    LET none == [records |-> records, raised |-> FALSE, sent |-> <<>>]
    IN  IF raw.kind # "object" THEN none
        ELSE IF raw.event \in {"subscribe", "ping", "pong"} THEN none
        ELSE IF ~raw.result.some THEN none
        ELSE LET out == CASE raw.channel = "futures.tickers" ->
                                gate_update_from_ticker(records, raw.result.v, now)
                          [] OTHER -> Handled(records)
             IN  [records |-> out.records, raised |-> out.raised, sent |-> <<>>]

\* GateWebSocketClient._handle_message(ws, raw) (lines 177-198); open tells
\* whether ws.send succeeds.  sent is what the handler sent on ws.
gate_handle_message(records, raw, now, open) ==
    LET none == [records |-> records, raised |-> FALSE, sent |-> <<>>]
    IN  IF raw.kind # "object" THEN none
        ELSE IF raw.event \in {"subscribe", "ping", "pong"}
             THEN IF raw.event # "ping" THEN none
                  ELSE IF open
                       THEN [none EXCEPT !.sent = <<[time |-> now, channel |-> "futures.ping"]>>]
                       ELSE [none EXCEPT !.raised = TRUE]
        ELSE IF ~raw.result.some THEN none
        ELSE LET out == CASE raw.channel = "futures.tickers" ->
                                gate_update_from_ticker(records, raw.result.v, now)
                          [] raw.channel = "futures.order_book" ->
                                gate_update_from_order_book(records, raw.result.v, now)
                          [] raw.channel = "futures.funding_rate" ->
                                gate_update_from_funding(records, raw.result.v, now)
                          [] OTHER -> Handled(records)
             IN  [records |-> out.records, raised |-> out.raised, sent |-> <<>>]

\* OkxWebSocketClient._handle_message(ws, raw) (lines 169-201): the texts ping
\* and pong come first, then the events subscribe and error, then op ping,
\* then the data of a channel, entry by entry.
okx_handle_message(records, raw, now, open) ==
    LET none == [records |-> records, raised |-> FALSE, sent |-> <<>>]
        reply(frame) == IF open THEN [none EXCEPT !.sent = <<frame>>]
                        ELSE [none EXCEPT !.raised = TRUE]
        update(recs, entry) ==
            CASE raw.arg.v.channel = "books5" -> okx_update_from_books(recs, entry, now)
              [] raw.arg.v.channel = "tickers" -> okx_update_from_ticker(recs, entry, now)
              [] raw.arg.v.channel = "funding-rate" -> okx_update_funding(recs, entry, now)
              [] OTHER -> Handled(recs)
        after[i \in 0..Len(raw.data)] ==
            IF i = 0 THEN Handled(records)
            ELSE IF after[i - 1].raised THEN after[i - 1]
            ELSE update(after[i - 1].records, raw.data[i])
    IN  IF raw.kind = "text" /\ raw.text = "pong" THEN none
        ELSE IF raw.kind = "text" /\ raw.text = "ping" THEN reply("pong")
        ELSE IF raw.kind # "object" THEN none
        ELSE IF raw.event \in {"subscribe", "error"} THEN none
        ELSE IF raw.op = "ping" THEN reply([op |-> "pong"])
        ELSE IF ~raw.arg.some \/ raw.data = <<>> THEN none
        ELSE [records |-> after[Len(raw.data)].records,
              raised |-> after[Len(raw.data)].raised, sent |-> <<>>]

\* run (gate_ws_monitor.py lines 150-152): recv, then the handler, then the
\* next recv.
GateMessage ==
    \E raw \in RawFrames.gate, open \in BOOLEAN :
        Receive("gate", "message", raw, gate_handle_message(cache.gate, raw, clock + 1, open))
OkxMessage ==
    \E raw \in RawFrames.okx, open \in BOOLEAN :
        Receive("okx", "message", raw, okx_handle_message(cache.okx, raw, clock + 1, open))

SpecKeepalive == InitStream /\ [][GateMessage \/ OkxMessage]_vars

\* What the handling of one frame adds to the connection and does to the cache.
C35_Step ==
    (pc = "stream" /\ clock' # clock /\ lastFrame'.handler = "message") =>
        LET raw == lastFrame'.frame
            gate == lastFrame'.client = "gate"
            ping == IF gate THEN raw.kind = "object" /\ raw.event = "ping"
                    ELSE \/ raw.kind = "text" /\ raw.text = "ping"
                         \/ /\ raw.kind = "object" /\ raw.op = "ping"
                            /\ raw.event \notin {"subscribe", "error"}
            sent == SubSeq(ws', Len(ws) + 1, Len(ws'))
        IN  /\ Len(ws') >= Len(ws) /\ SubSeq(ws', 1, Len(ws)) = ws
            /\ IF ping /\ ~lastFrame'.raised
               THEN /\ Len(sent) = 1
                    /\ IF gate THEN sent[1].channel = "futures.ping"
                       ELSE IF raw.kind = "text" THEN sent[1] = "pong"
                       ELSE sent[1] = [op |-> "pong"]
               ELSE sent = <<>>
            /\ ping => cache' = cache

C36_Step ==
    pc = "engine" =>
        \A i \in 1..Len(engine.tasks) :
            LET t == engine.tasks[i]
                u == engine'.tasks[i]
            IN  /\ u.ping > t.ping =>
                      t.venue = "hyper" /\ t.at = "subscribe" /\ u.at = "read" /\ t.ping = 0
                /\ (u.pinged /\ ~t.pinged) => t.at = "read" /\ u.at = "read" /\ t.ping = 1
                /\ (t.venue = "hyper" /\ t.at = "read" /\ u.at # "read") => u.at = "reap"
                /\ (t.at = "reap" /\ u.at # "reap") => t.ping = 0

\* C36: the ping task of a Hyperliquid client is created only when the
\* subscriptions were sent and the read loop starts; it sends its pings while
\* the read loop of that connection runs; whenever the read loop ends (error
\* or cancellation of run) run() cancels and awaits it before it goes on, so a
\* client never has two ping tasks and has none while it dials, subscribes,
\* sleeps before a retry or has ended.  Only Hyperliquid has a ping task.
C36_PingTask ==
    /\ [][C36_Step]_vars
    /\ [](pc = "engine" =>
            \A i \in 1..Len(engine.tasks) :
                /\ engine.tasks[i].ping <= 1
                /\ engine.tasks[i].ping > 0 =>
                      /\ engine.tasks[i].venue = "hyper"
                      /\ engine.tasks[i].at \in {"read", "reap"})

\* A Hyperliquid connection on which a ping was sent has failed, its ping task
\* was cancelled and awaited, and run() sleeps before the next dial.
C36_Witness ==
    /\ pc = "engine"
    /\ \E i \in 1..Len(engine.tasks) :
          /\ engine.tasks[i].venue = "hyper" /\ engine.tasks[i].at = "sleep"
          /\ engine.tasks[i].pinged /\ engine.tasks[i].why = "error"
          /\ engine.tasks[i].ping = 0

\* The two ways on from the fetch of a tick.
C37_Step ==
    pc = "fetch" =>
        \/ pc' = "entry" /\ rows' # <<>> /\ clock' = clock
        \/ /\ pc' = "fetch" /\ clock' = clock + 1
           /\ UNCHANGED <<positions, log, execs, orders, clients, rows, todo>>

\* C37: a tick of the auto-trader whose fetch fails with ContangoError makes
\* no entry, no exit, no executor call, no order and no log append and leaves
\* every position as it is; the loop sleeps and starts the next tick.  A
\* fetch either succeeds and the tick goes on with its rows, or it ends the
\* tick in that way.
C37_FetchError == [][C37_Step]_vars

\* A tick entered a position, the fetch of the next tick failed: the rows are
\* still those that made the entry, the position has its one tranche and
\* the log its one event.
C37_Witness ==
    /\ pc = "fetch" /\ clock = 2
    /\ pick_best(rows, args.entry_threshold) # NoRow
    /\ Len(positions) = 1 /\ Len(positions[1].pos.tranches) = 1
    /\ positions[1].pos.tranches[1].timestamp = 0
    /\ Len(log) = 1 /\ Len(execs) = 1

\* The sum of usd over the entry events of a triple minus the sum over its
\* exit events.
RECURSIVE LogBalance(_, _)
LogBalance(lines, key) ==
    IF lines = <<>> THEN Zero
    ELSE LET e == lines[Len(lines)]
             rest == LogBalance(SubSeq(lines, 1, Len(lines) - 1), key)
         IN  IF <<e.spot_exchange, e.futures_exchange, e.base>> # key THEN rest
             ELSE IF e.event = "entry" THEN Add(rest, e.usd)
             ELSE Sub(rest, e.usd)

\* The log of a step of the auto-trader starts with the log before it.
C38_Step ==
    pc \in {"fetch", "entry", "exit"} =>
        (Len(log') >= Len(log) /\ SubSeq(log', 1, Len(log)) = log)

\* C38: in dry-run mode with a writable log, at the end of every tick and for
\* every triple, the logged entries minus the logged exits of the triple are
\* the notional of its position (0 when it has none); the log only grows by
\* appended events.
C38_LogAgrees ==
    /\ [][C38_Step]_vars
    /\ []((/\ args.prog = "auto_trader" /\ ~args.live /\ env.log_writable
           /\ (pc = "fetch" \/ (pc = "exit" /\ todo = <<>>))) =>
             \A key \in {<<e.spot_exchange, e.futures_exchange, e.base>> :
                            e \in {log[i] : i \in 1..Len(log)}}
                        \cup {positions[i].key : i \in 1..Len(positions)} :
                 LogBalance(log, key) = IF HasKey(positions, key)
                                        THEN Lookup(positions, key).notional_usd
                                        ELSE Zero)

\* After three ticks the log holds two entries and an exit of one triple, and
\* the position holds what is left.
C38_Witness ==
    /\ args.prog = "auto_trader" /\ ~args.live /\ env.log_writable
    /\ pc = "fetch" /\ clock = 3
    /\ Len(log) = 3 /\ log[3].event = "exit" /\ log[1].event = "entry"
    /\ {<<log[i].spot_exchange, log[i].futures_exchange, log[i].base>> : i \in 1..3}
          = {positions[1].key}
    /\ positions[1].pos.notional_usd = Usd(TRANCHE_USD, 0)

\* ------------------------------------------------ unwinding a position
\* The tick from which on the exit signal of the upbit/okx BTC triple stays.
UnwindFrom == 2

\* fetch_rows of a run in which, from tick UnwindFrom on, every tick quotes
\* the upbit/okx BTC triple at a spread of 0.2 %; the ticks before are free.
FetchUnwind ==
    /\ pc = "fetch" /\ clock < 2 * UnwindFrom
    /\ \E q1 \in IF clock < UnwindFrom THEN QuoteOptions ELSE {Quote(1000, 1002, 1)},
          q2 \in {NoQuote, Quote(1000, 1020, 1)} :
          /\ SpotMapsOf(q1, q2) # <<>>
          /\ rows' = fetch_rows(q1, q2)
    /\ pc' = "entry"
    /\ UNCHANGED <<bookVars, otherVars, clock, args, env, positions, todo, log, orders, clients, execs>>

\* The loop goes on as long as it can (while True).
SpecUnwind ==
    /\ InitTrader
    /\ [][FetchUnwind \/ EntryLogic \/ ExitLogic \/ Sleep]_vars
    /\ WF_vars(FetchUnwind \/ EntryLogic \/ ExitLogic \/ Sleep)

\* What the exit pass does to the upbit/okx BTC position once the signal stays.
C39_Step ==
    LET key == <<"upbit", "okx", "BTC">>
        before == Lookup(positions, key).notional_usd
        left == Sub(before, MinUsd(Usd(TRANCHE_USD, 0), before))
    IN  (/\ clock >= UnwindFrom /\ HasKey(positions, key)
         /\ args.entry_threshold > args.exit_threshold) =>
            IF pc = "exit" /\ todo # <<>> /\ Head(todo) = key
            THEN IF HasKey(positions', key)
                 THEN Lookup(positions', key).notional_usd = left
                      /\ (Lt(Zero, left) \/ pc' = "crashed")
                 ELSE left = Zero
            ELSE /\ HasKey(positions', key)
                 /\ Lookup(positions', key) = Lookup(positions, key)

\* C39: once every tick's rows hold the triple of a position at
\* pct <= exit_threshold and no entry is made for it, each tick takes
\* min(TRANCHE_USD, notional_usd) off the position's notional, and the
\* position leaves the position set.
C39_Unwind ==
    /\ [][C39_Step]_vars
    /\ (/\ pc = "fetch" /\ clock = UnwindFrom
        /\ args.entry_threshold > args.exit_threshold
        /\ HasKey(positions, <<"upbit", "okx", "BTC">>))
          ~> ~HasKey(positions, <<"upbit", "okx", "BTC">>)

====
